---------------------------- MODULE Spec2Model ----------------------------
(***************************************************************************)
(* A model of the duplicity storage backends of this repository:           *)
(*   - AliCloudBackend (src/duplicity/backends/alicloudbackend.py)         *)
(*   - WebDAVBackend   (src/duplicity/backends/webdavbackend.py)           *)
(* driven by the retry wrapper of duplicity.backend (not part of src/; it  *)
(* is modelled from section 4.2 of the specification).                     *)
(*                                                                         *)
(* Strings are sequences of one-character strings, so that prefix tests    *)
(* and str.replace are computed, not assumed.  Remote servers (OSS, the    *)
(* WebDAV server) are the environment: every call picks one of the         *)
(* answers the server or the network can give.                             *)
(***************************************************************************)
EXTENDS Integers, Sequences, FiniteSets, TLC

\* ---------------------------------------------------------------- bounds
\* RetryPolicy.max_attempts ranges over 1..MaxAttempts.
MaxAttempts == 3
\* Local files 1..NFiles can be uploaded; file f holds f-1 bytes.
NFiles == 2
\* query_batch takes lists of 1..MaxBatch names (repetitions allowed).
MaxBatch == 2
\* GnuPG.run() is called up to NProcs times.
NProcs == 2

\* ---------------------------------------------------------------- strings
\* str.startswith
StartsWith(s, p) ==
    Len(p) <= Len(s) /\ SubSeq(s, 1, Len(p)) = p

\* str.find + 1: the position of the first occurrence of p in s, 0 if none
Find(s, p) ==
    LET hits == {i \in 1..(Len(s) - Len(p) + 1) : SubSeq(s, i, i + Len(p) - 1) = p}
    IN  IF hits = {} THEN 0 ELSE CHOOSE i \in hits : \A j \in hits : i <= j

\* str.replace(old, new, 1)
ReplaceFirst(s, old, new) ==
    IF old = <<>> THEN new \o s
    ELSE LET i == Find(s, old)
         IN  IF i = 0 THEN s
             ELSE SubSeq(s, 1, i - 1) \o new \o SubSeq(s, i + Len(old), Len(s))

\* ---------------------------------------------------------------- data
\* remote file names handed to put/get/delete/query
Names == { <<"a">>, <<"b">> }

Files == 1..NFiles
Size(f) == f - 1

\* the content of a remote object or of the local sink: the first n bytes
\* of file f; f = 0 is "nothing" (no object, an empty or missing file)
Absent == [f |-> 0, n |-> 0]
Whole(f) == [f |-> f, n |-> Size(f)]
Contents == {Absent} \cup {Whole(f) : f \in Files}
IsWhole(c) == c.f \in Files /\ c.n = Size(c.f)

\* errors: the exception class and, where there is one, the HTTP status
NoErr == [cls |-> "none", status |-> 0]
Exc(cls, status) == [cls |-> cls, status |-> status]

\* ---------------------------------------------------------------- state
VARIABLES
    kind,              \* "oss" or "dav": the backend class registered for the URL scheme
    max_attempts,      \* RetryPolicy.max_attempts, fixed at construction
    pc,                \* "new", "idle", "attempt", "cleanup", "done" (the operation
                       \* has returned or raised), "failed" (it raised a Fatal
                       \* failure: a reset is due) or "dead" (construction failed)
    op,                \* the operation in progress: [name, f, names]
    attempt,           \* the number of the current attempt, from 1
    errs,              \* the errors of this operation's failed attempts, in order
    cleanups,          \* cleanup-hook calls of this operation
    result,            \* what the last operation returned or raised
    store,             \* the remote store: key or path -> content
    store0,            \* the remote store when the operation started
    sink,              \* the local file a get writes to
    bucket,            \* AliCloud self.bucket: "unbound" (attribute deleted) or "bound"
    handles,           \* oss2.Bucket handles created since the operation started
    bucket_on_server,  \* whether the OSS bucket exists
    dav,               \* WebDAV self.conn, .headers, .parsed_url, .directory, .digest_challenge
    colls,             \* the collections that exist on the WebDAV server
    hnd,               \* where the WebDAV transport method in progress stands
    net,               \* the WebDAV server: "plain", "gateway" (it may redirect and
                       \* ask for authentication), "moved" (it redirects to its new
                       \* places) or "quiet" (it serves every request)
    environ,           \* what construction reads: os.environ, ~/.alicloud.cfg, the
                       \* importable modules, the URL, duplicity's ssl options
    conf,              \* AliCloud self.endpoint, .access_key_id, .access_key_secret,
                       \* .bucket_name, and the error __init__ raised
    process,           \* gpginterface.Process: pid, thread, returned
    child,             \* the GnuPG child process: running, zombie or reaped, and
                       \* the status word it exited with
    reaper,            \* where the thread running threaded_waitpid stands
    caller,            \* where the caller of GnuPG.run() and Process.wait() stands
    gnupg,             \* one call of GnuPG.run(): self.passphrase, create_fhs,
                       \* attach_fhs, the handles of the Process and the pipes
    b36,               \* file_naming.to_base36 / from_base36: a number on its way
                       \* through the reduced-radix encoding and back
    globals,           \* globals.short_filenames, the four file_prefix settings,
                       \* and the local time zone
    naming,            \* file_naming.get / parse: an entry or a foreign name, the
                       \* filename, the parse result and the chain built from it
    upload             \* one call of AliCloudBackend._put: the configured number of
                       \* upload threads, and what oss2.resumable_upload was given

engVars == <<max_attempts, pc, op, attempt, errs, cleanups, result, store0>>
ossVars == <<bucket, handles, bucket_on_server>>
davVars == <<dav, colls, hnd, net>>
\* the storage backends, and what stands beside them
backendVars == <<kind, max_attempts, pc, op, attempt, errs, cleanups, result, store,
                 store0, sink, bucket, handles, bucket_on_server, dav, colls, hnd, net,
                 environ, conf>>
gpgVars == <<process, child, reaper, caller>>
codecVars == <<b36, globals, naming>>
sideVars == <<gpgVars, gnupg, codecVars>>
auxVars == <<sideVars, upload>>
\* what the GnuPG processes, the naming codec and GnuPG.run() leave alone
besideGpg == <<backendVars, gnupg, codecVars, upload>>
besideCodec == <<backendVars, gpgVars, gnupg, upload>>
besideRun == <<backendVars, gpgVars, codecVars, upload>>
vars == <<backendVars, auxVars>>

\* ---------------------------------------------------------------- AliCloud OSS
\* key_prefix for the URL oss://bucket/d (url_parts = ['d'])
key_prefix == <<"d", "/">>

\* objects other tools may have left in the bucket: the folder placeholder
\* "d/", a nested key, and a key outside the prefix
OssForeign == { <<"d", "/">>, <<"d", "/", "d", "/", "a">>, <<"e", "/", "a">> }
\* every key of the bucket, in the (lexicographic) order OSS lists them
OssKeyOrder ==
    << <<"d", "/">>, <<"d", "/", "a">>, <<"d", "/", "b">>,
       <<"d", "/", "d", "/", "a">>, <<"e", "/", "a">> >>
OssKeys == {OssKeyOrder[i] : i \in 1..Len(OssKeyOrder)}

\* what one call of the OSS SDK can meet:
\*   ok      served, reply received
\*   e5xx    the server answers 5xx, nothing done (oss2.exceptions.ServerError)
\*   denied  the server answers 403, nothing done (oss2.exceptions.AccessDenied)
\*   timeout the request never reaches the server (oss2.exceptions.RequestError)
\*   cut     the transfer breaks part-way (RequestError); OSS publishes an
\*           object only when its upload has completed
\*   lost    served, but the reply is lost (RequestError)
OssFaults == {"ok", "e5xx", "denied", "timeout", "cut", "lost"}
OssErr(fault) ==
    CASE fault = "e5xx" -> Exc("ServerError", 500)
      [] fault = "denied" -> Exc("AccessDenied", 403)
      [] OTHER -> Exc("RequestError", 0)
AttributeError == Exc("AttributeError", 0)

\* the outcome of one transport call
Outcome(err, val, st, sk) == [err |-> err, val |-> val, store |-> st, sink |-> sk]

\* a _put whose upload shows in the bucket while it is under way: a failed
\* call leaves what it had sent (the variant C13 rules out)
AliCloud_put_streamed(f, name, fault) ==
    LET key_name == key_prefix \o name
        stored == [store EXCEPT ![key_name] = Whole(f)]
        begun == [store EXCEPT ![key_name] = [f |-> f, n |-> 0]]
    IN  IF bucket = "unbound" THEN Outcome(AttributeError, 0, store, sink)
        ELSE CASE fault = "ok" -> Outcome(NoErr, 0, stored, sink)
               [] fault = "lost" -> Outcome(OssErr(fault), 0, stored, sink)
               [] OTHER -> Outcome(OssErr(fault), 0, begun, sink)

\* a _put that works without a bucket handle (the variant C9 rules out)
AliCloud_put_unbound(f, name, fault) ==
    LET key_name == key_prefix \o name
        stored == [store EXCEPT ![key_name] = Whole(f)]
    IN  CASE fault = "ok" -> Outcome(NoErr, 0, stored, sink)
          [] fault = "lost" -> Outcome(OssErr(fault), 0, stored, sink)
          [] OTHER -> Outcome(OssErr(fault), 0, store, sink)

\* AliCloudBackend._put: oss2.resumable_upload(self.bucket, key_name, ...)
AliCloud_put(f, name, fault) ==
    LET key_name == key_prefix \o name
        stored == [store EXCEPT ![key_name] = Whole(f)]
    IN  IF bucket = "unbound" THEN Outcome(AttributeError, 0, store, sink)
        ELSE CASE fault = "ok" -> Outcome(NoErr, 0, stored, sink)
               [] fault = "lost" -> Outcome(OssErr(fault), 0, stored, sink)
               [] OTHER -> Outcome(OssErr(fault), 0, store, sink)

\* AliCloudBackend._get: self.bucket.get_object_to_file(key_name, local_path.name)
\* (the SDK opens the local file for writing, then copies the object into it)
AliCloud_get(name, fault, cutAt) ==
    LET key_name == key_prefix \o name
        c == store[key_name]
    IN  IF bucket = "unbound" THEN Outcome(AttributeError, 0, store, sink)
        ELSE IF fault \in {"e5xx", "denied", "timeout"}
             THEN Outcome(OssErr(fault), 0, store, Absent)
        ELSE IF c = Absent THEN Outcome(Exc("NoSuchKey", 404), 0, store, Absent)
        ELSE IF fault \in {"cut", "lost"}
             THEN Outcome(OssErr(fault), 0, store,
                          IF cutAt < c.n THEN [f |-> c.f, n |-> cutAt] ELSE Absent)
        ELSE Outcome(NoErr, 0, store, c)

\* AliCloudBackend._delete: self.bucket.delete_object(self.key_prefix + filename)
\* (OSS answers 204 whether or not the key exists)
AliCloud_delete_on(st, filename, fault) ==
    LET key_name == key_prefix \o filename
        removed == [st EXCEPT ![key_name] = Absent]
    IN  IF bucket = "unbound" THEN Outcome(AttributeError, 0, st, sink)
        ELSE CASE fault = "ok" -> Outcome(NoErr, 0, removed, sink)
               [] fault = "lost" -> Outcome(OssErr(fault), 0, removed, sink)
               [] OTHER -> Outcome(OssErr(fault), 0, st, sink)

AliCloud_delete(filename, fault) ==
    AliCloud_delete_on(store, filename, fault)

\* a _delete_list that goes on after a failed delete and raises the first
\* error at the end (the variant C12 rules out)
RECURSIVE AliCloud_delete_list_on(_, _, _, _, _)
AliCloud_delete_list_on(i, filename_list, faults, st, first) ==
    IF i > Len(filename_list) THEN Outcome(first, 0, st, sink)
    ELSE LET r == AliCloud_delete_on(st, filename_list[i], faults[i])
         IN  AliCloud_delete_list_on(i + 1, filename_list, faults, r.store,
                                     IF first = NoErr THEN r.err ELSE first)

AliCloud_delete_list_all(filename_list, faults) ==
    AliCloud_delete_list_on(1, filename_list, faults, store, NoErr)

\* AliCloudBackend._delete_list: self._delete(filename) for each name in turn;
\* faults[i] is what the i-th call meets, st the store the earlier calls left
RECURSIVE AliCloud_delete_list_from(_, _, _, _)
AliCloud_delete_list_from(i, filename_list, faults, st) ==
    IF i > Len(filename_list) THEN Outcome(NoErr, 0, st, sink)
    ELSE LET r == AliCloud_delete_on(st, filename_list[i], faults[i])
         IN  IF r.err # NoErr THEN r
             ELSE AliCloud_delete_list_from(i + 1, filename_list, faults, r.store)

AliCloud_delete_list(filename_list, faults) ==
    AliCloud_delete_list_from(1, filename_list, faults, store)

\* a _query without its except clause: NoSuchKey propagates (the variant C4
\* rules out)
AliCloud_query_uncaught(filename, fault) ==
    LET key_name == key_prefix \o filename
        c == store[key_name]
    IN  IF bucket = "unbound" THEN Outcome(AttributeError, 0, store, sink)
        ELSE IF fault # "ok" THEN Outcome(OssErr(fault), 0, store, sink)
        ELSE IF c = Absent THEN Outcome(Exc("NoSuchKey", 404), 0, store, sink)
        ELSE Outcome(NoErr, [size |-> c.n], store, sink)

\* AliCloudBackend._query: content_length of get_object_meta, -1 on NoSuchKey
AliCloud_query(filename, fault) ==
    LET key_name == key_prefix \o filename
        c == store[key_name]
    IN  IF bucket = "unbound" THEN Outcome(AttributeError, 0, store, sink)
        ELSE IF fault # "ok" THEN Outcome(OssErr(fault), 0, store, sink)
        ELSE Outcome(NoErr, [size |-> IF c = Absent THEN -1 ELSE c.n], store, sink)

\* AliCloudBackend._query_list: query_dict[filename] = self._query(filename)
\* for each name in turn; faults[i] is what the i-th call meets
RECURSIVE AliCloud_query_list_from(_, _, _, _)
AliCloud_query_list_from(i, filename_list, faults, query_dict) ==
    IF i > Len(filename_list) THEN Outcome(NoErr, query_dict, store, sink)
    ELSE LET r == AliCloud_query(filename_list[i], faults[i])
         IN  IF r.err # NoErr THEN r
             ELSE AliCloud_query_list_from(i + 1, filename_list, faults,
                     [k \in (DOMAIN query_dict) \cup {filename_list[i]} |->
                         IF k = filename_list[i] THEN r.val ELSE query_dict[k]])

AliCloud_query_list(filename_list, faults) ==
    AliCloud_query_list_from(1, filename_list, faults, <<>>)

\* AliCloudBackend.list_filenames_in_bucket: every key of
\* oss2.ObjectIterator(self.bucket, prefix=self.key_prefix), with
\* item.key.replace(self.key_prefix, '', 1)
ObjectIterator(prefix) ==
    SelectSeq(OssKeyOrder, LAMBDA k : store[k] # Absent /\ StartsWith(k, prefix))

list_filenames_in_bucket ==
    LET items == ObjectIterator(key_prefix)
    IN  [i \in 1..Len(items) |-> ReplaceFirst(items[i], key_prefix, <<>>)]

\* AliCloudBackend._list
AliCloud_list(fault) ==
    IF bucket = "unbound" THEN Outcome(AttributeError, 0, store, sink)
    ELSE IF fault # "ok" THEN Outcome(OssErr(fault), 0, store, sink)
    ELSE Outcome(NoErr, list_filenames_in_bucket, store, sink)

\* a bucket_exists that takes every error of get_bucket_acl for NoSuchBucket
bucket_exists_any_error(fault) ==
    [err |-> NoErr, val |-> fault = "ok" /\ bucket_on_server]

\* AliCloudBackend.bucket_exists: get_bucket_acl answers, or raises NoSuchBucket
\* (caught -> False); any other error propagates
bucket_exists(fault) ==
    IF fault # "ok" THEN [err |-> OssErr(fault), val |-> FALSE]
    ELSE [err |-> NoErr, val |-> bucket_on_server]

\* a reset_connection that drops the handle and builds none (the variant C11
\* rules out)
AliCloud_reset_connection_drop(fault1, fault2) ==
    [err |-> NoErr, bucket |-> "unbound", handles |-> handles,
     bucket_on_server |-> bucket_on_server, creates |-> FALSE]

\* AliCloudBackend.reset_connection: drop the handle, build a new one, create
\* the bucket if it does not exist.  fault1 is what get_bucket_acl meets,
\* fault2 what create_bucket meets; creates tells whether create_bucket was
\* called.
AliCloud_reset_connection(fault1, fault2) ==
    LET fresh == [bucket |-> "bound", handles |-> handles + 1]
        ex == bucket_exists(fault1)
        Ret(err, onServer, creates) ==
            [err |-> err, bucket |-> fresh.bucket, handles |-> fresh.handles,
             bucket_on_server |-> onServer, creates |-> creates]
    IN  IF ex.err # NoErr THEN Ret(ex.err, bucket_on_server, FALSE)
        ELSE IF ex.val THEN Ret(NoErr, bucket_on_server, FALSE)
        ELSE CASE fault2 = "ok" -> Ret(NoErr, TRUE, TRUE)
               [] fault2 = "lost" -> Ret(OssErr(fault2), TRUE, TRUE)
               [] OTHER -> Ret(OssErr(fault2), bucket_on_server, TRUE)

\* a _retry_cleanup that leaves the connection as it is (the variant C1 rules out)
AliCloud_retry_cleanup_noreset(fault1, fault2) ==
    [err |-> NoErr, bucket |-> bucket, handles |-> handles,
     bucket_on_server |-> bucket_on_server, creates |-> FALSE]

\* AliCloudBackend._retry_cleanup
AliCloud_retry_cleanup(fault1, fault2) ==
    AliCloud_reset_connection(fault1, fault2)

\* AliCloudBackend._close: self.bucket = None; del self.bucket
AliCloud_close ==
    [bucket |-> "unbound"]

\* ---- AliCloud configuration
\* a configuration value: whence it comes (src) and which setting it is; the
\* empty string is Empty, a variable or option that is not there is Unset
Val(src, name) == [src |-> src, name |-> name]
Empty == Val("", "")
Unset == Val("unset", "")
CfgOptions == {"endpoint", "access_key_id", "access_key_secret"}
EnvNames == {"ALICLOUD_OSS_ENDPOINT", "ALICLOUD_ACCESS_KEY_ID", "ALICLOUD_ACCESS_KEY_SECRET"}
EnvNameOf(option) ==
    CASE option = "endpoint" -> "ALICLOUD_OSS_ENDPOINT"
      [] option = "access_key_id" -> "ALICLOUD_ACCESS_KEY_ID"
      [] option = "access_key_secret" -> "ALICLOUD_ACCESS_KEY_SECRET"

Settings(err, values) ==
    [err |-> err, endpoint |-> values["endpoint"],
     access_key_id |-> values["access_key_id"],
     access_key_secret |-> values["access_key_secret"]]

\* a configuration that takes each value from the environment when its
\* variable is set and from the file otherwise (the variant C15 rules out)
get_alicloud_configuration_each(e) ==
    LET pick == [o \in CfgOptions |->
                    IF e.env[EnvNameOf(o)] # Unset THEN e.env[EnvNameOf(o)]
                    ELSE IF e.file.exists THEN e.file.oss[o] ELSE Unset]
    IN  IF \E o \in CfgOptions : pick[o] = Unset
        THEN Settings(Exc("BackendException", 0), [o \in CfgOptions |-> Empty])
        ELSE IF \E o \in CfgOptions : pick[o] = Empty
        THEN Settings(Exc("BackendException", 0), pick)
        ELSE Settings(NoErr, pick)

\* AliCloudBackend.get_alicloud_configuration
get_alicloud_configuration(e) ==
    LET blank == [o \in CfgOptions |-> Empty]
        from_env == [o \in CfgOptions |-> e.env[EnvNameOf(o)]]
        from_file == e.file.oss
        invalid(values) == \E o \in CfgOptions : values[o] = Empty
    IN  IF \A v \in EnvNames : e.env[v] # Unset
        THEN IF invalid(from_env)
             THEN Settings(Exc("BackendException", 0), from_env)
             ELSE Settings(NoErr, from_env)
        ELSE IF ~e.file.exists
        THEN Settings(Exc("BackendException", 0), blank)
        ELSE IF ~e.configparser
        THEN Settings(Exc("BackendException", 0), blank)
        ELSE IF from_file["endpoint"] = Unset
        THEN Settings(Exc("NoOptionError", 0), blank)
        ELSE IF from_file["access_key_id"] = Unset
        THEN Settings(Exc("NoOptionError", 0),
                      [blank EXCEPT !["endpoint"] = from_file["endpoint"]])
        ELSE IF from_file["access_key_secret"] = Unset
        THEN Settings(Exc("NoOptionError", 0),
                      [from_file EXCEPT !["access_key_secret"] = Empty])
        ELSE IF invalid(from_file)
        THEN Settings(Exc("BackendException", 0), from_file)
        ELSE Settings(NoErr, from_file)

\* the attributes of an instance whose __init__ has not set them
NoConf ==
    [err |-> NoErr, endpoint |-> Unset, access_key_id |-> Unset,
     access_key_secret |-> Unset, bucket_name |-> ""]

\* AliCloudBackend.__init__ up to its call of reset_connection(): the
\* attributes it has set and the error it raises
AliCloud_init(e) ==
    IF ~e.oss2 THEN [NoConf EXCEPT !.err = Exc("BackendException", 0)]
    ELSE LET c == get_alicloud_configuration(e)
             set == [NoConf EXCEPT !.endpoint = c.endpoint,
                                   !.access_key_id = c.access_key_id,
                                   !.access_key_secret = c.access_key_secret]
         IN  IF c.err # NoErr THEN [set EXCEPT !.err = c.err]
             ELSE IF e.url.hostname # ""
             THEN [set EXCEPT !.bucket_name = e.url.hostname]
             ELSE [set EXCEPT !.err = Exc("BackendException", 0)]

\* ---------------------------------------------------------------- WebDAV
\* a parsed URL; port 0 stands for a URL that names no port
UrlAt(scheme, hostname, port, path) ==
    [scheme |-> scheme, hostname |-> hostname, port |-> port, path |-> path]
Url(scheme, hostname, path) == UrlAt(scheme, hostname, 0, path)
NoUrl == Url("", "", <<>>)
\* the backend's URL, webdav://h1/p/d
BaseUrl == Url("webdav", "h1", <<"/", "p", "/", "d">>)
\* the Location headers a redirecting server names
RedirectUrls == { Url("http", "h2", <<"/", "p", "/", "d", "/">>) }
\* the Location headers of a server that has moved: to TLS or to another
\* port of the same host, or to another host and directory
MovedUrls ==
    { Url("https", "h1", <<"/", "p", "/", "d", "/">>),
      UrlAt("http", "h1", 8080, <<"/", "p", "/", "d", "/">>),
      Url("http", "h2", <<"/", "q", "/">>) }
\* the remote paths of the files, and the parent collection
DavPathOrder == << <<"/", "p", "/", "d", "/", "a">>, <<"/", "p", "/", "d", "/", "b">> >>
DavPaths == {DavPathOrder[i] : i \in 1..Len(DavPathOrder)}
DavColls == { <<"/", "p", "/">>, <<"/", "p", "/", "d", "/">> }

\* re.compile('/+').sub('/', s)
RECURSIVE foldpath(_)
foldpath(s) ==
    IF Len(s) < 2 THEN s
    ELSE IF s[1] = "/" /\ s[2] = "/" THEN foldpath(Tail(s))
    ELSE <<s[1]>> \o foldpath(Tail(s))

\* WebDAVBackend.sanitize_path
sanitize_path(path) ==
    IF path # <<>> THEN foldpath(path \o <<"/">>) ELSE <<"/">>

NoConn == [st |-> "none", host |-> "", port |-> 0, tls |-> FALSE]
NoReq == [method |-> "", path |-> <<>>, data |-> 0, redirected |-> 0]
Req(method, path, data) == [method |-> method, path |-> path, data |-> data, redirected |-> 0]

\* WebDAVBackend.__init__
WebDAV_init(parsed_url) ==
    [conn |-> NoConn,
     orphans |-> 0,
     headers |-> [Depth |-> FALSE, Authorization |-> "none"],
     parsed_url |-> parsed_url,
     digest_challenge |-> FALSE,
     directory |-> sanitize_path(parsed_url.path)]

\* a _close that closes nothing (the variant C10 rules out)
WebDAV_close_nothing(d) ==
    d

\* WebDAVBackend._close: if self.conn: self.conn.close()
\* conn.st is "none" (self.conn is None), "fresh" (a connection object whose
\* socket was never opened), "open" or "closed"
WebDAV_close(d) ==
    IF d.conn.st = "none" THEN d ELSE [d EXCEPT !.conn.st = "closed"]

\* a connection class that does not look at the certificate file (the
\* variant C16 rules out)
VerifiedHTTPSConnection_init_unchecked(tls) ==
    IF ~tls.ssl_modules THEN Exc("FatalBackendException", 0) ELSE NoErr

\* VerifiedHTTPSConnection.__init__: tls.cacert is what self.cacert_file names
\* after the search of the default locations: "none", or a file that is
\* "readable" or "unreadable"
VerifiedHTTPSConnection_init(tls) ==
    IF ~tls.ssl_modules THEN Exc("FatalBackendException", 0)
    ELSE IF tls.cacert = "unreadable" THEN Exc("FatalBackendException", 0)
    ELSE NoErr

\* WebDAVBackend.connect: a new connection object (its socket opens with the
\* first request), unless one for the same host is kept.  orphans counts the
\* sockets left open in connection objects the backend no longer refers to.
WebDAV_connect(d, forced) ==
    IF ~forced /\ d.conn.st # "none" /\ d.conn.host = d.parsed_url.hostname
    THEN [err |-> NoErr, dav |-> d]
    ELSE LET d1 == WebDAV_close(d)
             New(tls) == [st |-> "fresh", host |-> d.parsed_url.hostname,
                          port |-> d.parsed_url.port, tls |-> tls]
             Replaced(tls) ==
                 [d1 EXCEPT !.conn = New(tls),
                            !.orphans = IF d1.conn.st = "open" THEN 1 ELSE d1.orphans]
             verified == VerifiedHTTPSConnection_init(environ.tls)
         IN  IF d.parsed_url.scheme \in {"webdav", "http"}
             THEN [err |-> NoErr, dav |-> Replaced(FALSE)]
             ELSE IF d.parsed_url.scheme \in {"webdavs", "https"}
             THEN IF environ.tls.ssl_no_check_certificate \/ verified = NoErr
                  THEN [err |-> NoErr, dav |-> Replaced(TRUE)]
                  ELSE [err |-> verified, dav |-> d1]
             ELSE [err |-> Exc("FatalBackendException", 0), dav |-> d1]

\* WebDAVBackend._retry_cleanup
WebDAV_retry_cleanup(d) ==
    WebDAV_connect(d, TRUE)

\* ---- the WebDAV server and the network
\* the parent collection of a path or collection ("/" always exists)
RECURSIVE ParentOf(_)
ParentOf(path) ==
    IF Len(path) <= 1 THEN <<"/">>
    ELSE LET up == SubSeq(path, 1, Len(path) - 1)
         IN  IF up[Len(up)] = "/" THEN up ELSE ParentOf(up)

CollExists(cs, c) == c = <<"/">> \/ c \in cs

Href(host, path) == [host |-> host, path |-> path]

\* the multistatus document of a Depth-1 PROPFIND of collection c: the
\* collection itself and its members.  style is the server's way of writing
\* hrefs: "path" (absolute paths), "url" (full URLs naming the host the request
\* went to), "alien" (full URLs naming another host), "mixed" (absolute
\* paths, the last href a full URL naming another host); extra adds the parent.
Multistatus(st, cs, c, host, style, extra) ==
    LET h == CASE style = "path" -> ""
               [] style = "url" -> host
               [] OTHER -> "h9"
        files == SelectSeq(DavPathOrder, LAMBDA q : st[q] # Absent /\ ParentOf(q) = c)
        subs == IF c = <<"/", "p", "/">> /\ <<"/", "p", "/", "d", "/">> \in cs
                THEN << <<"/", "p", "/", "d", "/">> >> ELSE <<>>
        all == (IF extra THEN <<ParentOf(c)>> ELSE <<>>) \o <<c>> \o subs \o files
    IN  [i \in 1..Len(all) |->
            Href(IF style = "mixed" THEN (IF i = Len(all) THEN "h9" ELSE "") ELSE h, all[i])]

Response(status) ==
    [status |-> status, body |-> Absent, cut |-> FALSE, doc |-> <<>>,
     location |-> NoUrl, challenge |-> "none"]

\* what the server does with a request it serves: the response, and its new state
Serve(st, cs, rq, host, style, extra) ==
    LET Ans(resp, st1, cs1) == [resp |-> resp, store |-> st1, colls |-> cs1]
        p == rq.path
    IN  CASE rq.method = "PUT" ->
               IF p \notin DavPaths \/ ~CollExists(cs, ParentOf(p))
               THEN Ans(Response(409), st, cs)
               ELSE Ans(Response(IF st[p] = Absent THEN 201 ELSE 204),
                        [st EXCEPT ![p] = Whole(rq.data)], cs)
          [] rq.method = "GET" ->
               IF p \in DavPaths /\ st[p] # Absent
               THEN Ans([Response(200) EXCEPT !.body = st[p]], st, cs)
               ELSE Ans(Response(404), st, cs)
          [] rq.method = "DELETE" ->
               IF p \in DavPaths /\ st[p] # Absent
               THEN Ans(Response(204), [st EXCEPT ![p] = Absent], cs)
               ELSE Ans(Response(404), st, cs)
          [] rq.method = "PROPFIND" ->
               IF CollExists(cs, p)
               THEN Ans([Response(207) EXCEPT
                            !.doc = Multistatus(st, cs, p, host, style, extra)], st, cs)
               ELSE Ans(Response(404), st, cs)
          [] rq.method = "MKCOL" ->
               IF CollExists(cs, p) THEN Ans(Response(405), st, cs)
               ELSE IF ~CollExists(cs, ParentOf(p)) \/ p \notin DavColls
               THEN Ans(Response(409), st, cs)
               ELSE Ans(Response(201), st, cs \cup {p})

\* what one HTTP exchange can meet:
\*   serve     the server serves the request
\*   e500/e400 the server answers 500 / 400 and does nothing
\*   e401b/d   the server answers 401 with a Basic / Digest challenge
\*   redirect  the server answers 302 with a Location header
\*   r_noloc   the server answers 301 without a Location header
\*   drop      the connection breaks before the request is served (socket.error)
\*   lost      the request is served, the connection breaks before the reply
\*   cut       the request is served, the connection breaks inside the body of
\*             the reply (a GET or PROPFIND: the other replies have no body)
PlainAnswers ==
    {[k |-> x, url |-> NoUrl] : x \in {"serve", "e500", "e400", "drop", "lost", "cut"}}
GatewayAnswers ==
    {[k |-> x, url |-> NoUrl] : x \in {"e401b", "e401d", "r_noloc"}}
    \cup {[k |-> "redirect", url |-> u] : u \in RedirectUrls}
MovedAnswers ==
    {[k |-> x, url |-> NoUrl] : x \in {"serve", "drop", "r_noloc"}}
    \cup {[k |-> "redirect", url |-> u] : u \in MovedUrls}
DavAnswers(nt) ==
    IF nt = "gateway" THEN PlainAnswers \cup GatewayAnswers
    ELSE IF nt = "moved" THEN MovedAnswers
    ELSE IF nt = "quiet" THEN {a \in PlainAnswers : a.k = "serve"}
    ELSE PlainAnswers

\* the forms of the multistatus document a PROPFIND is answered with
DavDocs(method) ==
    IF method = "PROPFIND"
    THEN {[style |-> y, extra |-> e] : y \in {"path", "url", "alien", "mixed"}, e \in BOOLEAN}
    ELSE {[style |-> "path", extra |-> FALSE]}
\* the answers to one exchange: only a GET or a PROPFIND reply has a body
\* the connection can break in
DavAnswersTo(nt, method) ==
    IF method \in {"GET", "PROPFIND"} THEN DavAnswers(nt)
    ELSE {a \in DavAnswers(nt) : a.k # "cut"}
\* the answers to one call of request(): to its first exchange, to the second
\* one it makes after a 401, and the form of a multistatus document
DavChoices(nt, method) ==
    {[ans |-> a, ans2 |-> b, style |-> dc.style, extra |-> dc.extra] :
        a \in DavAnswersTo(nt, method), b \in DavAnswersTo(nt, method), dc \in DavDocs(method)}

\* self.conn.request(method, quoted_path, data, self.headers) and
\* self.conn.getresponse(): the socket is opened as needed
Exchange(st, cs, d, rq, ans, style, extra) ==
    LET d1 == [d EXCEPT !.conn.st = "open"]
        sv == Serve(st, cs, rq, d.conn.host, style, extra)
        Got(err, resp, st1, cs1) ==
            [err |-> err, resp |-> resp, store |-> st1, colls |-> cs1, dav |-> d1]
    IN  CASE ans.k = "serve" -> Got(NoErr, sv.resp, sv.store, sv.colls)
          [] ans.k = "cut" -> Got(NoErr, [sv.resp EXCEPT !.cut = TRUE], sv.store, sv.colls)
          [] ans.k = "lost" -> Got(Exc("socket.error", 0), Response(0), sv.store, sv.colls)
          [] ans.k = "drop" -> Got(Exc("socket.error", 0), Response(0), st, cs)
          [] ans.k = "e500" -> Got(NoErr, Response(500), st, cs)
          [] ans.k = "e400" -> Got(NoErr, Response(400), st, cs)
          [] ans.k = "e401b" -> Got(NoErr, [Response(401) EXCEPT !.challenge = "basic"], st, cs)
          [] ans.k = "e401d" -> Got(NoErr, [Response(401) EXCEPT !.challenge = "digest"], st, cs)
          [] ans.k = "r_noloc" -> Got(NoErr, Response(301), st, cs)
          [] ans.k = "redirect" -> Got(NoErr, [Response(302) EXCEPT !.location = ans.url], st, cs)

\* redirects followed before request() gives up
MaxRedirects == 10

\* a request() that follows redirects without end (the variant C3 rules out)
redirect_limit_none(redirected) ==
    FALSE

\* WebDAVBackend.request: if redirected > 10: raise FatalBackendException
redirect_limit(redirected) ==
    redirected > MaxRedirects

\* WebDAVBackend.get_authorization: the header for the challenge; a Digest
\* challenge is kept in self.digest_challenge
get_authorization(d, response) ==
    IF response.challenge = "basic"
    THEN [d EXCEPT !.headers.Authorization = "basic"]
    ELSE [d EXCEPT !.headers.Authorization = "digest", !.digest_challenge = TRUE]

\* a request() that returns the first 401 to its caller
needs_authorization_never(response) ==
    FALSE

\* WebDAVBackend.request: elif response.status == 401
needs_authorization(response) ==
    response.status = 401

\* a request() that follows the redirect of any method
follows_redirect_any(response, method) ==
    response.status \in {301, 302}

\* WebDAVBackend.request: if response.status in [301, 302] and method == 'PROPFIND'
follows_redirect(response, method) ==
    response.status \in {301, 302} /\ method = "PROPFIND"

\* WebDAVBackend.request, one call without the call it makes to itself after a
\* redirect: k = "response" (it returns resp), "raise" (it raises err) or
\* "recurse" (it calls request(rq) again); sent is the number of times it
\* called self.conn.request
WebDAV_request(st, cs, d, rq, ans, ans2, style, extra) ==
    LET Ret(k, err, resp, rq1, st1, cs1, d1, sent) ==
            [k |-> k, err |-> err, resp |-> resp, rq |-> rq1, store |-> st1,
             colls |-> cs1, dav |-> d1, sent |-> sent]
        c == WebDAV_connect(WebDAV_close(d), FALSE)
        d2 == IF c.dav.digest_challenge
              THEN [c.dav EXCEPT !.headers.Authorization = "digest"] ELSE c.dav
        x == Exchange(st, cs, d2, rq, ans, style, extra)
        d3 == get_authorization(x.dav, x.resp)
        y == Exchange(x.store, x.colls, d3, rq, ans2, style, extra)
        moved == [x.dav EXCEPT !.parsed_url = x.resp.location,
                               !.directory = sanitize_path(x.resp.location.path)]
    IN  IF c.err # NoErr THEN Ret("raise", c.err, Response(0), rq, st, cs, c.dav, 0)
        ELSE IF x.err # NoErr THEN Ret("raise", x.err, Response(0), rq, x.store, x.colls, x.dav, 1)
        ELSE IF follows_redirect(x.resp, rq.method)
        THEN IF x.resp.location # NoUrl
             THEN IF redirect_limit(rq.redirected)
                  THEN Ret("raise", Exc("FatalBackendException", 0), Response(0), rq,
                           x.store, x.colls, x.dav, 1)
                  ELSE Ret("recurse", NoErr, Response(0),
                           [rq EXCEPT !.path = moved.directory,
                                      !.redirected = rq.redirected + 1],
                           x.store, x.colls, moved, 1)
             ELSE Ret("raise", Exc("FatalBackendException", 0), Response(0), rq,
                      x.store, x.colls, x.dav, 1)
        ELSE IF needs_authorization(x.resp)
        THEN IF y.err # NoErr
             THEN Ret("raise", y.err, Response(0), rq, y.store, y.colls, y.dav, 2)
             ELSE Ret("response", NoErr, y.resp, rq, y.store, y.colls, y.dav, 2)
        ELSE Ret("response", NoErr, x.resp, rq, x.store, x.colls, x.dav, 1)

\* ---- the transport methods of WebDAVBackend, around their call of request()
BackendException(status) == Exc("BackendException", status)

\* a taste_href that does not test the href against self.directory (the variant
\* C8 rules out)
taste_href_unfiltered(d, href) ==
    LET filename == href.path
    IN  IF href.host # "" /\ href.host # d.parsed_url.hostname
        THEN [err |-> BackendException(0), ok |-> FALSE, filename |-> <<>>]
        ELSE [err |-> NoErr, ok |-> TRUE,
              filename |-> ReplaceFirst(filename, d.directory, <<>>)]

\* a taste_href that passes over an href naming another host (the variant
\* C19 rules out)
taste_href_skip_foreign(d, href) ==
    LET filename == href.path
    IN  IF href.host # "" /\ href.host # d.parsed_url.hostname
        THEN [err |-> NoErr, ok |-> FALSE, filename |-> <<>>]
        ELSE IF StartsWith(filename, d.directory)
        THEN [err |-> NoErr, ok |-> TRUE,
              filename |-> ReplaceFirst(filename, d.directory, <<>>)]
        ELSE [err |-> NoErr, ok |-> FALSE, filename |-> <<>>]

\* WebDAVBackend.taste_href: the file name of an href below self.directory
\* (ok = FALSE: None), or the error for a full URL naming another host
taste_href(d, href) ==
    LET filename == href.path
    IN  IF href.host # "" /\ href.host # d.parsed_url.hostname
        THEN [err |-> BackendException(0), ok |-> FALSE, filename |-> <<>>]
        ELSE IF StartsWith(filename, d.directory)
        THEN [err |-> NoErr, ok |-> TRUE,
              filename |-> ReplaceFirst(filename, d.directory, <<>>)]
        ELSE [err |-> NoErr, ok |-> FALSE, filename |-> <<>>]

\* WebDAVBackend._list, the loop over the hrefs of the document:
\* result.append(filename) for every filename that is neither None nor ''
RECURSIVE WebDAV_list_hrefs(_, _, _, _)
WebDAV_list_hrefs(d, doc, i, acc) ==
    IF i > Len(doc) THEN [err |-> NoErr, val |-> acc]
    ELSE LET t == taste_href(d, doc[i])
         IN  IF t.err # NoErr THEN [err |-> t.err, val |-> <<>>]
             ELSE WebDAV_list_hrefs(d, doc, i + 1,
                     IF t.ok /\ t.filename # <<>> THEN Append(acc, t.filename) ELSE acc)

\* WebDAVBackend._list after request() returned, for the statuses 200 and 207
\* and the statuses that are neither these nor 404
WebDAV_list(d, response) ==
    IF response.status \in {200, 207}
    THEN IF response.cut THEN [err |-> Exc("IncompleteRead", 0), val |-> <<>>]
         ELSE WebDAV_list_hrefs(d, response.doc, 1, <<>>)
    ELSE [err |-> BackendException(response.status), val |-> <<>>]

\* a makedir that looks at the deepest directory only
makedir_dirs_leaf(directory) ==
    <<directory>>

\* WebDAVBackend.makedir: the collections it checks, topmost first
\* (d = "/".join(dirs[0:i + 1]) + "/" for i in range(1, len(dirs)))
makedir_dirs(directory) ==
    LET cut == {j \in 2..Len(directory) : directory[j] = "/"}
        RECURSIVE upTo(_)
        upTo(j) == IF j > Len(directory) THEN <<>>
                   ELSE (IF j \in cut THEN <<SubSeq(directory, 1, j)>> ELSE <<>>)
                        \o upTo(j + 1)
    IN  upTo(2)

\* a _get that writes whatever arrived (the variant C7 rules out)
WebDAV_get_unchecked(response) ==
    IF response.status = 200
    THEN [err |-> NoErr,
          sink |-> IF response.cut THEN Absent ELSE response.body]
    ELSE [err |-> BackendException(response.status), sink |-> Absent]

\* WebDAVBackend._get after request() returned:
\* target_file.write(response.read()) on 200, BackendException otherwise
WebDAV_get(response) ==
    IF response.status = 200
    THEN IF response.cut THEN [err |-> Exc("IncompleteRead", 0), sink |-> Absent]
         ELSE [err |-> NoErr, sink |-> response.body]
    ELSE [err |-> BackendException(response.status), sink |-> Absent]

\* a _put that takes every response for success (the variant C6 rules out)
WebDAV_put_any_status(response) ==
    NoErr

\* WebDAVBackend._put after request() returned
WebDAV_put(response) ==
    IF response.status \in {200, 201, 204}
    THEN IF response.cut THEN Exc("IncompleteRead", 0) ELSE NoErr
    ELSE BackendException(response.status)

\* a _delete that takes 404 for success (the variant C17 rules out)
WebDAV_delete_missing_ok(response) ==
    IF response.status \in {200, 204, 404}
    THEN IF response.cut THEN Exc("IncompleteRead", 0) ELSE NoErr
    ELSE BackendException(response.status)

\* WebDAVBackend._delete after request() returned
WebDAV_delete(response) ==
    IF response.status \in {200, 204}
    THEN IF response.cut THEN Exc("IncompleteRead", 0) ELSE NoErr
    ELSE BackendException(response.status)

\* ---------------------------------------------------------------- retry engine
\* RetryPolicy's retriable categories (specification 4.2, step 3): network
\* resets, timeouts and 5xx answers; everything else is Fatal.
Retriable(err) ==
    \/ err.cls \in {"RequestError", "socket.error", "IncompleteRead"}
    \/ err.status >= 500

Fatal(err) == err # NoErr /\ ~Retriable(err)

\* the failed attempts of the operation in progress that were Retriable
fails == Cardinality({i \in DOMAIN errs : Retriable(errs[i])})

NoResult == [status |-> "none", op |-> "none", err |-> NoErr, val |-> 0, at |-> "none"]
NoOp == [name |-> "none", f |-> 0, names |-> <<>>]
NoHnd == [phase |-> "none", i |-> 0, dirs |-> <<>>, rq |-> NoReq]

\* the caller's operations (WebDAVBackend has no _query); behind a gateway
\* the caller works on one file name
PutOps(ns) == {[name |-> "put", f |-> f, names |-> <<n>>] : f \in Files, n \in ns}
OneNameOps(which, ns) == {[name |-> w, f |-> 0, names |-> <<n>>] : w \in which, n \in ns}
ListOps == {[name |-> "list", f |-> 0, names |-> <<>>]}
NameLists == UNION {[1..k -> Names] : k \in 1..MaxBatch}
BatchOps(which) == {[name |-> w, f |-> 0, names |-> ns] : w \in which, ns \in NameLists}
OpsOf(k, nt) ==
    IF nt = "quiet" THEN (IF k = "dav" THEN ListOps ELSE {})
    ELSE IF k = "oss"
    THEN PutOps(Names) \cup OneNameOps({"get", "delete", "query"}, Names) \cup ListOps
         \cup BatchOps({"query_batch", "delete_batch"})
    ELSE LET ns == IF nt \in {"gateway", "moved"} THEN { <<"a">> } ELSE Names
         IN  PutOps(ns) \cup OneNameOps({"get", "delete"}, ns) \cup ListOps

\* an engine that retries every failure, Fatal ones too (the variant C2 rules
\* out)
Finish_retry_all(err, val) ==
    IF err = NoErr
    THEN /\ pc' = "done"
         /\ errs' = errs
         /\ result' = [status |-> "ok", op |-> op.name, err |-> NoErr, val |-> val,
                       at |-> "attempt"]
    ELSE /\ errs' = Append(errs, err)
         /\ IF attempt < max_attempts
            THEN /\ pc' = "cleanup"
                 /\ result' = result
            ELSE /\ pc' = "done"
                 /\ result' = [status |-> "fail", op |-> op.name, err |-> err,
                               val |-> 0, at |-> "attempt"]

\* steps 2, 3 and 5 of the algorithm, after an attempt that ended with err
\* (NoErr: success) and value val
Finish(err, val) ==
    IF err = NoErr
    THEN /\ pc' = "done"
         /\ errs' = errs
         /\ result' = [status |-> "ok", op |-> op.name, err |-> NoErr, val |-> val,
                       at |-> "attempt"]
    ELSE /\ errs' = Append(errs, err)
         /\ IF Retriable(err) /\ attempt < max_attempts
            THEN /\ pc' = "cleanup"
                 /\ result' = result
            ELSE /\ pc' = "done"
                 /\ result' = [status |-> "fail", op |-> op.name, err |-> err,
                               val |-> 0, at |-> "attempt"]

\* step 4 after the cleanup hook ended with err: the next attempt, or the
\* hook's error
AfterCleanup(err) ==
    /\ cleanups' = cleanups + 1
    /\ IF err = NoErr
       THEN /\ pc' = "attempt"
            /\ attempt' = attempt + 1
            /\ result' = result
       ELSE /\ pc' = "done"
            /\ attempt' = attempt
            /\ result' = [status |-> "fail", op |-> op.name, err |-> err,
                          val |-> 0, at |-> "cleanup"]

\* between operations the caller may close or reset the session, also after a
\* Fatal failure; a reset readies the instance for the next operation
BetweenOps == pc \in {"idle", "failed"}

HasReset ==
    /\ pc' = "idle"
    /\ UNCHANGED <<max_attempts, op, attempt, errs, cleanups, result, store0>>

\* a caller issues an operation
StartOp ==
    /\ pc = "idle"
    /\ \E o \in OpsOf(kind, net) : op' = o
    /\ pc' = "attempt"
    /\ attempt' = 1
    /\ store0' = store
    /\ UNCHANGED <<auxVars, environ, conf, kind, max_attempts, errs, cleanups, result, store, sink, ossVars, davVars>>

\* the operation has returned or raised; the caller goes on
Return ==
    /\ pc = "done"
    /\ pc' = IF result.status = "fail" /\ Fatal(result.err) THEN "failed" ELSE "idle"
    /\ op' = NoOp
    /\ attempt' = 0
    /\ errs' = <<>>
    /\ cleanups' = 0
    /\ handles' = 0
    /\ result' = NoResult
    /\ store0' = store
    /\ sink' = Absent
    /\ UNCHANGED <<auxVars, environ, conf, kind, max_attempts, store, bucket, bucket_on_server, davVars>>

\* ---------------------------------------------------------------- AliCloud actions
\* what the calls of an operation can meet
OssFaultsOf(name) ==
    CASE name \in {"put", "delete", "delete_batch"} ->
             {"ok", "e5xx", "denied", "timeout", "lost"}
      [] name = "get" -> {"ok", "e5xx", "denied", "timeout", "cut"}
      [] OTHER -> {"ok", "e5xx", "denied", "timeout"}

\* step 1 on AliCloud: one call of the transport method of the operation
OssTransport(o, faults, cutAt) ==
    CASE o.name = "put" -> AliCloud_put(o.f, o.names[1], faults[1])
      [] o.name = "get" -> AliCloud_get(o.names[1], faults[1], cutAt)
      [] o.name = "delete" -> AliCloud_delete(o.names[1], faults[1])
      [] o.name = "query" -> AliCloud_query(o.names[1], faults[1])
      [] o.name = "query_batch" -> AliCloud_query_list(o.names, faults)
      [] o.name = "delete_batch" -> AliCloud_delete_list(o.names, faults)
      [] o.name = "list" -> AliCloud_list(faults[1])

OssAttempt ==
    /\ pc = "attempt"
    /\ kind = "oss"
    /\ \E faults \in [1..(IF op.names = <<>> THEN 1 ELSE Len(op.names))
                        -> OssFaultsOf(op.name)],
          cutAt \in 0..(IF op.name = "get" /\ NFiles > 2 THEN NFiles - 2 ELSE 0) :
          LET r == OssTransport(op, faults, cutAt)
          IN  /\ store' = r.store
              /\ sink' = r.sink
              /\ Finish(r.err, r.val)
    /\ UNCHANGED <<auxVars, environ, conf, kind, max_attempts, op, attempt, cleanups, store0, ossVars, davVars>>

\* step 4 on AliCloud: the cleanup hook, then the next attempt
OssCleanup ==
    /\ pc = "cleanup"
    /\ kind = "oss"
    /\ \E fault1 \in OssFaultsOf("acl"), fault2 \in OssFaultsOf("put") :
          LET r == AliCloud_retry_cleanup(fault1, fault2)
          IN  /\ bucket' = r.bucket
              /\ handles' = r.handles
              /\ bucket_on_server' = r.bucket_on_server
              /\ AfterCleanup(r.err)
    /\ UNCHANGED <<auxVars, environ, conf, kind, max_attempts, op, errs, store, store0, sink, davVars>>

\* AliCloudBackend.__init__: the configuration, the bucket name, then
\* self.reset_connection()
OssConstruct ==
    /\ pc = "new"
    /\ kind = "oss"
    /\ LET c == AliCloud_init(environ)
       IN  /\ conf' = c
           /\ IF c.err # NoErr
              THEN /\ pc' = "dead"
                   /\ UNCHANGED <<bucket, bucket_on_server>>
              ELSE \E fault1 \in OssFaultsOf("acl"), fault2 \in OssFaultsOf("put") :
                      LET r == AliCloud_reset_connection(fault1, fault2)
                      IN  /\ bucket' = r.bucket
                          /\ bucket_on_server' = r.bucket_on_server
                          /\ pc' = IF r.err = NoErr THEN "idle" ELSE "dead"
    /\ UNCHANGED <<auxVars, environ, kind, max_attempts, op, attempt, errs, cleanups, result, store,
                   store0, sink, handles, davVars>>

\* the caller closes the backend
OssClose ==
    /\ BetweenOps
    /\ kind = "oss"
    /\ bucket' = AliCloud_close.bucket
    /\ UNCHANGED <<auxVars, environ, conf, kind, engVars, store, sink, handles, bucket_on_server, davVars>>

\* the caller resets the session
OssReset ==
    /\ BetweenOps
    /\ kind = "oss"
    /\ \E fault1 \in OssFaultsOf("acl"), fault2 \in OssFaultsOf("put") :
          LET r == AliCloud_reset_connection(fault1, fault2)
          IN  /\ bucket' = r.bucket
              /\ bucket_on_server' = r.bucket_on_server
    /\ HasReset
    /\ UNCHANGED <<auxVars, environ, conf, kind, store, sink, handles, davVars>>

\* ---------------------------------------------------------------- WebDAV actions
\* WebDAVBackend.__init__
DavConstruct ==
    /\ pc = "new"
    /\ kind = "dav"
    /\ dav' = WebDAV_init(environ.url)
    /\ pc' = "idle"
    /\ UNCHANGED <<auxVars, environ, conf, kind, max_attempts, op, attempt, errs, cleanups, result, store,
                   store0, sink, ossVars, colls, hnd, net>>

\* step 1 on WebDAV, up to the call of request(): _put, _get, _delete build
\* the url (_get opens the local file for writing), _list sets the Depth header
DavBegin ==
    /\ pc = "attempt"
    /\ kind = "dav"
    /\ hnd.phase = "none"
    /\ LET url == dav.directory \o (IF op.names = <<>> THEN <<>> ELSE op.names[1])
       IN  CASE op.name = "put" ->
                  /\ hnd' = [NoHnd EXCEPT !.phase = "main", !.rq = Req("PUT", url, op.f)]
                  /\ UNCHANGED <<dav, sink>>
             [] op.name = "get" ->
                  /\ hnd' = [NoHnd EXCEPT !.phase = "main", !.rq = Req("GET", url, 0)]
                  /\ sink' = Absent
                  /\ UNCHANGED dav
             [] op.name = "delete" ->
                  /\ hnd' = [NoHnd EXCEPT !.phase = "main", !.rq = Req("DELETE", url, 0)]
                  /\ UNCHANGED <<dav, sink>>
             [] op.name = "list" ->
                  /\ hnd' = [NoHnd EXCEPT !.phase = "main",
                                          !.rq = Req("PROPFIND", dav.directory, 0)]
                  /\ dav' = [dav EXCEPT !.headers.Depth = TRUE]
                  /\ UNCHANGED sink
    /\ UNCHANGED <<auxVars, environ, conf, kind, engVars, store, ossVars, colls, net>>

\* makedir goes on to its next collection, or returns and _list returns []
DavAdvance(d) ==
    LET i == hnd.i + 1
    IN  IF i <= Len(hnd.dirs)
        THEN /\ hnd' = [hnd EXCEPT !.phase = "mk_propfind", !.i = i,
                                   !.rq = Req("PROPFIND", hnd.dirs[i], 0)]
             /\ dav' = [d EXCEPT !.headers.Depth = TRUE]
             /\ UNCHANGED <<pc, errs, result>>
        ELSE /\ hnd' = NoHnd
             /\ dav' = d
             /\ Finish(NoErr, <<>>)

\* the transport method ends with err or val
DavEnd(d, err, val) ==
    /\ hnd' = NoHnd
    /\ dav' = d
    /\ Finish(err, val)

\* step 1 on WebDAV: one call of request() and what the transport method does
\* with what it returns
DavRequest ==
    /\ pc = "attempt"
    /\ kind = "dav"
    /\ hnd.phase # "none"
    /\ \E r \in {WebDAV_request(store, colls, dav, hnd.rq, c.ans, c.ans2, c.style, c.extra) :
                    c \in DavChoices(net, hnd.rq.method)} :
          LET nodepth == [r.dav EXCEPT !.headers.Depth = FALSE]
          IN  /\ store' = r.store
              /\ colls' = r.colls
              /\ CASE r.k = "recurse" ->
                        /\ hnd' = [hnd EXCEPT !.rq = r.rq]
                        /\ dav' = r.dav
                        /\ UNCHANGED <<pc, errs, result, sink>>
                   [] r.k = "raise" ->
                        /\ DavEnd(r.dav, r.err, 0)
                        /\ UNCHANGED sink
                   [] r.k = "response" /\ hnd.phase = "main" /\ op.name = "put" ->
                        /\ DavEnd(r.dav, WebDAV_put(r.resp), 0)
                        /\ UNCHANGED sink
                   [] r.k = "response" /\ hnd.phase = "main" /\ op.name = "delete" ->
                        /\ DavEnd(r.dav, WebDAV_delete(r.resp), 0)
                        /\ UNCHANGED sink
                   [] r.k = "response" /\ hnd.phase = "main" /\ op.name = "get" ->
                        /\ DavEnd(r.dav, WebDAV_get(r.resp).err, 0)
                        /\ sink' = WebDAV_get(r.resp).sink
                   [] r.k = "response" /\ hnd.phase = "main" /\ op.name = "list" ->
                        /\ IF r.resp.status = 404
                           THEN LET dirs == makedir_dirs(nodepth.directory)
                                IN  IF dirs = <<>>
                                    THEN DavEnd(nodepth, NoErr, <<>>)
                                    ELSE /\ hnd' = [phase |-> "mk_propfind", i |-> 1,
                                                    dirs |-> dirs,
                                                    rq |-> Req("PROPFIND", dirs[1], 0)]
                                         /\ dav' = [nodepth EXCEPT !.headers.Depth = TRUE]
                                         /\ UNCHANGED <<pc, errs, result>>
                           ELSE DavEnd(nodepth, WebDAV_list(nodepth, r.resp).err,
                                       WebDAV_list(nodepth, r.resp).val)
                        /\ UNCHANGED sink
                   [] r.k = "response" /\ hnd.phase = "mk_propfind" ->
                        /\ IF r.resp.status = 404
                           THEN /\ hnd' = [hnd EXCEPT !.phase = "mk_mkcol",
                                              !.rq = Req("MKCOL", hnd.dirs[hnd.i], 0)]
                                /\ dav' = nodepth
                                /\ UNCHANGED <<pc, errs, result>>
                           ELSE DavAdvance(nodepth)
                        /\ UNCHANGED sink
                   [] r.k = "response" /\ hnd.phase = "mk_mkcol" ->
                        /\ IF r.resp.status # 201
                           THEN DavEnd(r.dav, BackendException(r.resp.status), 0)
                           ELSE DavAdvance(r.dav)
                        /\ UNCHANGED sink
    /\ UNCHANGED <<auxVars, environ, conf, kind, max_attempts, op, attempt, cleanups, store0, ossVars, net>>

\* step 4 on WebDAV: the cleanup hook, then the next attempt
DavCleanup ==
    /\ pc = "cleanup"
    /\ kind = "dav"
    /\ LET r == WebDAV_retry_cleanup(dav)
       IN  /\ dav' = r.dav
           /\ AfterCleanup(r.err)
    /\ UNCHANGED <<auxVars, environ, conf, kind, max_attempts, op, errs, store, store0, sink, ossVars, colls, hnd, net>>

\* the caller closes the backend
DavClose ==
    /\ BetweenOps
    /\ kind = "dav"
    /\ dav' = WebDAV_close(dav)
    /\ UNCHANGED <<auxVars, environ, conf, kind, engVars, store, sink, ossVars, colls, hnd, net>>

\* the caller resets the session
DavReset ==
    /\ BetweenOps
    /\ kind = "dav"
    /\ dav' = WebDAV_connect(dav, TRUE).dav
    /\ HasReset
    /\ UNCHANGED <<auxVars, environ, conf, kind, store, sink, ossVars, colls, hnd, net>>

\* ---------------------------------------------------------------- gpginterface
\* the Process objects a caller holds at one time: GnuPG.run() makes one for
\* every GnuPG child (Procs also serves as the pid of the child)
Procs == 1..NProcs

\* Process.returned is None, or the status word of os.waitpid: the exit code
\* shifted left by 8, or the number of the signal that killed the child
None == -1
ExitStatuses == {0, 256, 9}

\* the calls of wait() a caller makes on one Process
MaxWaits == 2

\* Process.__init__; waits is the outcome of every call of wait() that ended
Process_init == [pid |-> None, thread |-> "none", returned |-> None, waits |-> <<>>]
NoChild == [st |-> "none", status |-> 0]
NoReaper == [at |-> "none", got |-> None]

InitProcess ==
    /\ process = [p \in Procs |-> Process_init]
    /\ child = [p \in Procs |-> NoChild]
    /\ reaper = [p \in Procs |-> NoReaper]
    /\ caller = [p \in Procs |-> "none"]

\* the caller is one thread: it is inside at most one call of wait()
InWait(p) == caller[p] \in {"join", "test"}

\* GnuPG._attach_fork_exec in the parent: process.pid = os.fork(), then the
\* thread running threaded_waitpid is started
GpgRun(p) ==
    /\ caller[p] = "none"
    /\ \A q \in Procs : ~InWait(q)
    /\ process' = [process EXCEPT ![p] = [Process_init EXCEPT !.pid = p, !.thread = "started"]]
    /\ child' = [child EXCEPT ![p] = [st |-> "running", status |-> 0]]
    /\ reaper' = [reaper EXCEPT ![p] = [at |-> "waitpid", got |-> None]]
    /\ caller' = [caller EXCEPT ![p] = "run"]
    /\ UNCHANGED besideGpg

\* the child exits or is killed
ChildExit(p) ==
    /\ child[p].st = "running"
    /\ \E s \in ExitStatuses : child' = [child EXCEPT ![p] = [st |-> "zombie", status |-> s]]
    /\ UNCHANGED <<besideGpg, process, reaper, caller>>

\* the child is collected by someone other than the thread: the
\* os.waitpid(process.pid, 0) the docstring of Process asks callers to make,
\* or the kernel when SIGCHLD is ignored
ReapElsewhere(p) ==
    /\ child[p].st = "zombie"
    /\ caller[p] = "run"
    /\ \A q \in Procs : ~InWait(q)
    /\ child' = [child EXCEPT ![p].st = "reaped"]
    /\ UNCHANGED <<besideGpg, process, reaper, caller>>

\* threaded_waitpid: os.waitpid(process.pid, 0) returns the status word of
\* the child it collects, or raises when there is no child to collect
threaded_waitpid_call(p) ==
    /\ reaper[p].at = "waitpid"
    /\ \/ /\ child[p].st = "zombie"
          /\ child' = [child EXCEPT ![p].st = "reaped"]
          /\ reaper' = [reaper EXCEPT ![p] = [at |-> "store", got |-> child[p].status]]
       \/ /\ child[p].st = "reaped"
          /\ child' = child
          /\ reaper' = [reaper EXCEPT ![p] = [at |-> "except", got |-> None]]
    /\ UNCHANGED <<besideGpg, process, caller>>

\* threaded_waitpid: what it assigns to process.returned, in the try and in
\* the except clause
threaded_waitpid_value(at, got) ==
    IF at = "store" THEN got ELSE 0

\* threaded_waitpid: process.returned = ..., and the thread ends
threaded_waitpid_assign(p) ==
    /\ reaper[p].at \in {"store", "except"}
    /\ process' = [process EXCEPT
                      ![p].returned = threaded_waitpid_value(reaper[p].at, reaper[p].got),
                      ![p].thread = "finished"]
    /\ reaper' = [reaper EXCEPT ![p].at = "done"]
    /\ UNCHANGED <<besideGpg, child, caller>>

\* a wait() that never joins the thread
wait_joins_never(returned) ==
    FALSE

\* Process.wait: if self.returned is None
wait_joins(returned) ==
    returned = None

\* Process.wait, called for the first time or again:
\* if self.returned is None: self.thread.join()
Process_wait_begin(p) ==
    /\ caller[p] \in {"run", "returned", "raised"}
    /\ Len(process[p].waits) < MaxWaits
    /\ \A q \in Procs : ~InWait(q)
    /\ caller' = [caller EXCEPT ![p] = IF wait_joins(process[p].returned) THEN "join" ELSE "test"]
    /\ UNCHANGED <<besideGpg, process, child, reaper>>

\* Process.wait: self.thread.join() returns when the thread has ended
Process_wait_join(p) ==
    /\ caller[p] = "join"
    /\ process[p].thread = "finished"
    /\ caller' = [caller EXCEPT ![p] = "test"]
    /\ UNCHANGED <<besideGpg, process, child, reaper>>

\* Process.wait: if self.returned != 0: raise IOError
Process_wait_test(p) ==
    /\ caller[p] = "test"
    /\ caller' = [caller EXCEPT ![p] = IF process[p].returned # 0 THEN "raised" ELSE "returned"]
    /\ process' = [process EXCEPT ![p].waits = Append(@, caller'[p])]
    /\ UNCHANGED <<besideGpg, child, reaper>>

\* ---------------------------------------------------------------- base 36
\* Timestamps run past 2^31: a number is held as two limbs, hi * Limb + lo.
Limb == 1000 * 1000
Big(hi, lo) == [hi |-> hi, lo |-> lo]
BigOf(i) == Big(i \div Limb, i % Limb)
BigZero == Big(0, 0)
IsBig(n) == n.hi >= 0 /\ n.lo >= 0 /\ n.lo < Limb

\* the digits of the reduced radix, by value
Base36Digits ==
    <<"0", "1", "2", "3", "4", "5", "6", "7", "8", "9", "a", "b", "c", "d", "e", "f", "g", "h", "i", "j", "k", "l", "m", "n", "o", "p", "q", "r", "s", "t", "u", "v", "w", "x", "y", "z">>
Radix == Len(Base36Digits)
IsBase36Digit(c) == \E i \in 1..Radix : Base36Digits[i] = c
DigitValue(c) == (CHOOSE i \in 1..Radix : Base36Digits[i] = c) - 1

\* divmod(n, 36)
divmod36(n) ==
    LET x == (n.hi % Radix) * Limb + n.lo
    IN  [div |-> Big(n.hi \div Radix, x \div Radix), mod |-> x % Radix]

\* file_naming.to_base36: the digits of n, most significant first; one digit for 0
RECURSIVE to_base36(_)
to_base36(n) ==
    LET dm == divmod36(n)
        last_digit == <<Base36Digits[dm.mod + 1]>>
    IN  IF dm.div = BigZero THEN last_digit
        ELSE to_base36(dm.div) \o last_digit

\* file_naming.from_base36: the number a string of digits stands for
RECURSIVE from_base36_acc(_, _)
from_base36_acc(acc, s) ==
    IF s = <<>> THEN acc
    ELSE LET x == acc.lo * Radix + DigitValue(Head(s))
         IN  from_base36_acc(Big(acc.hi * Radix + x \div Limb, x % Limb), Tail(s))
\* from_base36 keeping nine decimal digits of the number
from_base36_narrow(s) ==
    LET n == from_base36_acc(BigZero, s)
    IN  Big(n.hi % 1000, n.lo)
from_base36(s) == from_base36_acc(BigZero, s)

\* the numbers of Test36.test_base36, the small numbers, the powers of the
\* radix and their neighbours, and the numbers around 2^34
TestNumbers ==
    {Big(0, 0), Big(0, 1), Big(0, 10), Big(0, 1313), Big(0, 34233), Big(0, 872338),
     Big(2, 342889), Big(134, 242234), Big(1204, 684368), Big(34972, 382455)}
MaxSmallNumber == 40
SmallNumbers == {BigOf(i) : i \in 0..MaxSmallNumber}
RadixPowers ==
    {BigOf(1296 + d) : d \in {-1, 0, 1}} \cup {BigOf(46656 + d) : d \in {-1, 0, 1}}
    \cup {BigOf(1679616 + d) : d \in {-1, 0, 1}} \cup {BigOf(60466176 + d) : d \in {-1, 0, 1}}
    \cup {Big(2176, 782335), Big(2176, 782336), Big(2176, 782337)}
    \cup {Big(78364, 164095), Big(78364, 164096), Big(78364, 164097)}
Around2To34 ==
    {Big(17179, 869183), Big(17179, 869184), Big(17179, 869185),
     Big(2147, 483647), Big(2147, 483648), Big(4294, 967295), Big(4294, 967296),
     Big(99999, 999999)}
Base36Numbers == TestNumbers \cup SmallNumbers \cup RadixPowers \cup Around2To34

NoBase36 == [at |-> "idle", n |-> BigZero, s |-> <<>>, back |-> BigZero]

\* to_base36(n) is called
Base36Encode ==
    /\ b36.at = "number"
    /\ b36' = [b36 EXCEPT !.at = "string", !.s = to_base36(b36.n)]
    /\ UNCHANGED <<besideCodec, globals, naming>>

\* from_base36 is called on the string
Base36Decode ==
    /\ b36.at = "string"
    /\ b36' = [b36 EXCEPT !.at = "back", !.back = from_base36(b36.s)]
    /\ UNCHANGED <<besideCodec, globals, naming>>

\* ---------------------------------------------------------------- text and time
\* str.split(sep): the pieces of s between occurrences of the character sep
RECURSIVE Split(_, _)
Split(s, sep) ==
    LET i == Find(s, <<sep>>)
    IN  IF i = 0 THEN <<s>>
        ELSE <<SubSeq(s, 1, i - 1)>> \o Split(SubSeq(s, i + 1, Len(s)), sep)

\* sep.join(pieces)
RECURSIVE Join(_, _)
Join(pieces, sep) ==
    IF pieces = <<>> THEN <<>>
    ELSE IF Len(pieces) = 1 THEN pieces[1]
    ELSE pieces[1] \o <<sep>> \o Join(Tail(pieces), sep)

IsDecimalDigit(c) == IsBase36Digit(c) /\ DigitValue(c) < 10
IsDecimal(s) == s # <<>> /\ \A i \in 1..Len(s) : IsDecimalDigit(s[i])
IsBase36(s) == s # <<>> /\ \A i \in 1..Len(s) : IsBase36Digit(s[i])

\* int(s)
RECURSIVE ParseDecimalAcc(_, _)
ParseDecimalAcc(acc, s) ==
    IF s = <<>> THEN acc ELSE ParseDecimalAcc(acc * 10 + DigitValue(Head(s)), Tail(s))
ParseDecimal(s) == ParseDecimalAcc(0, s)

\* "%d" % n
RECURSIVE FormatDecimal(_)
FormatDecimal(n) ==
    IF n < 10 THEN <<Base36Digits[n + 1]>>
    ELSE FormatDecimal(n \div 10) \o <<Base36Digits[(n % 10) + 1]>>

\* "%0wd" % n
FormatPadded(n, w) ==
    [i \in 1..w |-> Base36Digits[((n \div (10 ^ (w - i))) % 10) + 1]]

\* arithmetic on the two-limb numbers with a small second operand
BigDivMod(n, k) ==
    LET x == (n.hi % k) * Limb + n.lo
    IN  [div |-> Big(n.hi \div k, x \div k), mod |-> x % k]
BigMulAdd(n, k, d) ==
    LET x == n.lo * k + d
    IN  Big(n.hi * k + x \div Limb, x % Limb)
BigToInt(n) == n.hi * Limb + n.lo

\* the proleptic Gregorian calendar: days since 1970-01-01 of a date, and back
DaysFromCivil(y, m, d) ==
    LET yy == IF m <= 2 THEN y - 1 ELSE y
        era == yy \div 400
        yoe == yy - era * 400
        mp == IF m > 2 THEN m - 3 ELSE m + 9
        doy == (153 * mp + 2) \div 5 + d - 1
        doe == yoe * 365 + yoe \div 4 - yoe \div 100 + doy
    IN  era * 146097 + doe - 719468
CivilFromDays(days) ==
    LET z == days + 719468
        era == z \div 146097
        doe == z - era * 146097
        yoe == (doe - doe \div 1460 + doe \div 36524 - doe \div 146096) \div 365
        doy == doe - (365 * yoe + yoe \div 4 - yoe \div 100)
        mp == (5 * doy + 2) \div 153
        m == IF mp < 10 THEN mp + 3 ELSE mp - 9
    IN  [y |-> yoe + era * 400 + (IF m <= 2 THEN 1 ELSE 0),
         m |-> m,
         d |-> doy - (153 * mp + 2) \div 5 + 1]

\* no time: ParseResults.time, .start_time or .end_time is None
NoTime == Big(-1, 0)

\* the time zone of a time string: "Z", or the sign, hours and minutes of
\* the offset from UTC (tz is in minutes east of UTC)
FormatZone(tz) ==
    IF tz = 0 THEN <<"Z">>
    ELSE LET a == IF tz < 0 THEN -tz ELSE tz
         IN  (IF tz < 0 THEN <<"-">> ELSE <<"+">>)
             \o FormatPadded(a \div 60, 2) \o <<":">> \o FormatPadded(a % 60, 2)

\* dup_time.timetostring: the verbose form of a timestamp, in local time
timetostring(t, tz) ==
    LET sm == BigDivMod(t, 60)
        mh == BigDivMod(BigMulAdd(sm.div, 1, tz), 60)
        hd == BigDivMod(mh.div, 24)
        date == CivilFromDays(BigToInt(hd.div))
    IN  FormatPadded(date.y, 4) \o <<"-">> \o FormatPadded(date.m, 2) \o <<"-">>
        \o FormatPadded(date.d, 2) \o <<"T">> \o FormatPadded(hd.mod, 2) \o <<":">>
        \o FormatPadded(mh.mod, 2) \o <<":">> \o FormatPadded(sm.mod, 2) \o FormatZone(tz)

\* the offset a zone string stands for, in minutes; NoZone if it is none
NoZone == 100 * 60
ParseZone(z) ==
    IF z = <<"Z">> THEN 0
    ELSE IF /\ Len(z) = 6
            /\ z[1] \in {"+", "-"}
            /\ IsDecimal(SubSeq(z, 2, 3))
            /\ z[4] = ":"
            /\ IsDecimal(SubSeq(z, 5, 6))
         THEN (IF z[1] = "-" THEN -1 ELSE 1)
              * (ParseDecimal(SubSeq(z, 2, 3)) * 60 + ParseDecimal(SubSeq(z, 5, 6)))
         ELSE NoZone

\* dup_time.stringtotime: the timestamp a verbose time string stands for,
\* NoTime if the string is not one
stringtotime(s) ==
    IF \/ Len(s) < 20
       \/ ~IsDecimal(SubSeq(s, 1, 4)) \/ s[5] # "-"
       \/ ~IsDecimal(SubSeq(s, 6, 7)) \/ s[8] # "-"
       \/ ~IsDecimal(SubSeq(s, 9, 10)) \/ s[11] # "T"
       \/ ~IsDecimal(SubSeq(s, 12, 13)) \/ s[14] # ":"
       \/ ~IsDecimal(SubSeq(s, 15, 16)) \/ s[17] # ":"
       \/ ~IsDecimal(SubSeq(s, 18, 19))
       \/ ParseZone(SubSeq(s, 20, Len(s))) = NoZone
    THEN NoTime
    ELSE LET y == ParseDecimal(SubSeq(s, 1, 4))
             m == ParseDecimal(SubSeq(s, 6, 7))
             d == ParseDecimal(SubSeq(s, 9, 10))
             hh == ParseDecimal(SubSeq(s, 12, 13))
             mm == ParseDecimal(SubSeq(s, 15, 16))
             ss == ParseDecimal(SubSeq(s, 18, 19))
             tz == ParseZone(SubSeq(s, 20, Len(s)))
         IN  IF m \notin 1..12 \/ d \notin 1..31 \/ hh > 23 \/ mm > 59 \/ ss > 59
             THEN NoTime
             ELSE BigMulAdd(BigMulAdd(BigMulAdd(BigOf(DaysFromCivil(y, m, d)), 24, hh),
                                      60, mm - tz),
                            60, ss)

\* ---------------------------------------------------------------- file naming
\* ParseResults: what parse returns for a name, and what get is given
Types == {"full", "inc", "full-sig", "new-sig"}
IsRange(type) == type \in {"inc", "new-sig"}
IsSignature(type) == type \in {"full-sig", "new-sig"}
ParseResults(type, manifest, volume_number, time, start_time, end_time, encrypted, compressed, partial) ==
    [type |-> type, manifest |-> manifest, volume_number |-> volume_number,
     time |-> time, start_time |-> start_time, end_time |-> end_time,
     encrypted |-> encrypted, compressed |-> compressed, partial |-> partial]
\* parse returns None
NoMatch == ParseResults("none", FALSE, None, NoTime, NoTime, NoTime, FALSE, FALSE, FALSE)

\* the tokens of the two forms of a name
TypeToken(short, type) ==
    CASE type = "full" -> IF short THEN <<"d", "f">> ELSE <<"d", "u", "p", "l", "i", "c", "i", "t", "y", "-", "f", "u", "l", "l">>
      [] type = "inc" -> IF short THEN <<"d", "i">> ELSE <<"d", "u", "p", "l", "i", "c", "i", "t", "y", "-", "i", "n", "c">>
      [] type = "full-sig" -> IF short THEN <<"d", "f", "s">> ELSE <<"d", "u", "p", "l", "i", "c", "i", "t", "y", "-", "f", "u", "l", "l", "-", "s", "i", "g", "n", "a", "t", "u", "r", "e", "s">>
      [] type = "new-sig" -> IF short THEN <<"d", "n", "s">> ELSE <<"d", "u", "p", "l", "i", "c", "i", "t", "y", "-", "n", "e", "w", "-", "s", "i", "g", "n", "a", "t", "u", "r", "e", "s">>
SignatureToken(short) == IF short THEN <<"s", "t">> ELSE <<"s", "i", "g", "t", "a", "r">>
ManifestToken(short) == IF short THEN <<"m">> ELSE <<"m", "a", "n", "i", "f", "e", "s", "t">>
VolumeToken(short) == IF short THEN <<"d", "t">> ELSE <<"d", "i", "f", "f", "t", "a", "r">>
PartialToken(short) == IF short THEN <<"p">> ELSE <<"p", "a", "r", "t">>
CompressionToken(short) == IF short THEN <<"z">> ELSE <<"g", "z">>
EncryptionToken(short) == IF short THEN <<"g">> ELSE <<"g", "p", "g">>
RangeToken == <<"t", "o">>
VolumeWord == <<"v", "o", "l">>

\* the flag suffixes with one token for compression or encryption
get_suffix_single(short, partial, compressed, encrypted) ==
    (IF partial THEN <<PartialToken(short)>> ELSE <<>>)
    \o (IF encrypted THEN <<EncryptionToken(short)>>
        ELSE IF compressed THEN <<CompressionToken(short)>> ELSE <<>>)

\* the flag suffixes with the partial token last
get_suffix_partial_last(short, partial, compressed, encrypted) ==
    (IF compressed THEN <<CompressionToken(short)>> ELSE <<>>)
    \o (IF encrypted THEN <<EncryptionToken(short)>> ELSE <<>>)
    \o (IF partial THEN <<PartialToken(short)>> ELSE <<>>)

\* the flag suffixes of a name: the partial token, then the compression
\* token, then the encryption token
get_suffix(short, partial, compressed, encrypted) ==
    (IF partial THEN <<PartialToken(short)>> ELSE <<>>)
    \o (IF compressed THEN <<CompressionToken(short)>> ELSE <<>>)
    \o (IF encrypted THEN <<EncryptionToken(short)>> ELSE <<>>)

\* a timestamp in a name: base 36 in the short form, the verbose time
\* string in the long form
FormatTime(short, t, tz) ==
    IF short THEN to_base36(t) ELSE timetostring(t, tz)
ParseTime(short, s) ==
    IF short THEN (IF IsBase36(s) THEN from_base36(s) ELSE NoTime)
    ELSE stringtotime(s)

\* the volume number in a name
FormatVolume(short, n) ==
    IF short THEN to_base36(BigOf(n)) ELSE VolumeWord \o FormatDecimal(n)
ParseVolume(short, s) ==
    IF short THEN (IF IsBase36(s) THEN BigToInt(from_base36(s)) ELSE None)
    ELSE IF StartsWith(s, VolumeWord) /\ IsDecimal(SubSeq(s, Len(VolumeWord) + 1, Len(s)))
         THEN ParseDecimal(SubSeq(s, Len(VolumeWord) + 1, Len(s)))
         ELSE None

\* the type-specific prefix: archive, manifest or signature
PrefixClasses == <<"archive", "signature", "manifest">>
ClassOf(e) ==
    IF IsSignature(e.type) THEN "signature"
    ELSE IF e.manifest THEN "manifest"
    ELSE "archive"
\* the global prefix alone
PrefixOf_global_only(g, class) == g.file_prefix
PrefixOf(g, class) ==
    g.file_prefix \o (CASE class = "archive" -> g.file_prefix_archive
                        [] class = "manifest" -> g.file_prefix_manifest
                        [] class = "signature" -> g.file_prefix_signature)

\* file_naming.get: the name of an entry under the configuration g
get(e, g) ==
    LET short == g.short_filenames
        times == IF ~IsRange(e.type) THEN <<FormatTime(short, e.time, g.tz)>>
                 ELSE IF short
                      THEN <<FormatTime(short, e.start_time, g.tz),
                             FormatTime(short, e.end_time, g.tz)>>
                      ELSE <<FormatTime(short, e.start_time, g.tz), RangeToken,
                             FormatTime(short, e.end_time, g.tz)>>
        body == IF IsSignature(e.type) THEN <<SignatureToken(short)>>
                ELSE IF e.manifest THEN <<ManifestToken(short)>>
                ELSE IF e.volume_number # None
                     THEN <<FormatVolume(short, e.volume_number), VolumeToken(short)>>
                     ELSE <<>>
    IN  PrefixOf(g, ClassOf(e))
        \o Join(<<TypeToken(short, e.type)>> \o times \o body
                \o get_suffix(short, e.partial, e.compressed, e.encrypted), ".")

\* the flags read off the first and the last token, whatever lies between
SuffixFlags_lenient(short, toks) ==
    {[partial |-> toks # <<>> /\ Head(toks) = PartialToken(short),
      compressed |-> toks # <<>> /\ toks[Len(toks)] = CompressionToken(short),
      encrypted |-> toks # <<>> /\ toks[Len(toks)] = EncryptionToken(short)]}

\* the flags a sequence of suffix tokens stands for; none if it is not one
\* the encoder writes
SuffixFlags(short, toks) ==
    {f \in [partial : BOOLEAN, compressed : BOOLEAN, encrypted : BOOLEAN] :
        get_suffix(short, f.partial, f.compressed, f.encrypted) = toks}

\* file_naming.parse, one grammar: the tokens of a name without its prefix
\* against the grammar of one form and one prefix class
parse_tokens(toks, short, class) ==
    LET types == {t \in Types : /\ IsSignature(t) <=> class = "signature"
                                /\ toks[1] = TypeToken(short, t)}
    IN  IF types = {} THEN NoMatch
        ELSE
        LET type == CHOOSE t \in types : TRUE
            ntimes == IF ~IsRange(type) THEN 1 ELSE IF short THEN 2 ELSE 3
        IN  IF Len(toks) < 1 + ntimes THEN NoMatch
            ELSE
            LET t1 == ParseTime(short, toks[2])
                t2 == ParseTime(short, toks[1 + ntimes])
                rest == SubSeq(toks, 2 + ntimes, Len(toks))
                volume == IF class = "archive" /\ Len(rest) >= 2 /\ rest[2] = VolumeToken(short)
                          THEN ParseVolume(short, rest[1])
                          ELSE None
                marked == CASE class = "signature" ->
                                   rest # <<>> /\ rest[1] = SignatureToken(short)
                            [] class = "manifest" ->
                                   rest # <<>> /\ rest[1] = ManifestToken(short)
                            [] class = "archive" -> TRUE
                after == CASE class \in {"signature", "manifest"} -> Tail(rest)
                           [] volume # None -> SubSeq(rest, 3, Len(rest))
                           [] OTHER -> rest
                flags == SuffixFlags(short, after)
            IN  IF \/ t1 = NoTime
                   \/ t2 = NoTime
                   \/ (IsRange(type) /\ ~short /\ toks[3] # RangeToken)
                   \/ ~marked
                   \/ volume = 0
                   \/ flags = {}
                THEN NoMatch
                ELSE LET f == CHOOSE x \in flags : TRUE
                     IN  ParseResults(type, class = "manifest", volume,
                                      IF IsRange(type) THEN NoTime ELSE t1,
                                      IF IsRange(type) THEN t1 ELSE NoTime,
                                      IF IsRange(type) THEN t2 ELSE NoTime,
                                      f.encrypted, f.compressed, f.partial)

\* file_naming.parse, one attempt: strip the global and the type-specific
\* prefix, then parse what is left
parse_attempt(filename, g, short, class) ==
    LET prefix == PrefixOf(g, class)
    IN  IF ~StartsWith(filename, prefix) THEN NoMatch
        ELSE parse_tokens(Split(SubSeq(filename, Len(prefix) + 1, Len(filename)), "."),
                          short, class)

\* only the form globals.short_filenames names
FormsTried_mode_only(g) == <<g.short_filenames>>

\* the forms parse tries: the short form always, the long form unless
\* globals.short_filenames is set
FormsTried(g) == IF g.short_filenames THEN <<TRUE>> ELSE <<TRUE, FALSE>>
\* file_naming.parse: the first attempt that matches, None if none does
parse(filename, g) ==
    LET forms == FormsTried(g)
        attempts == [i \in 1..(Len(forms) * Len(PrefixClasses)) |->
                        parse_attempt(filename, g,
                                      forms[((i - 1) \div Len(PrefixClasses)) + 1],
                                      PrefixClasses[((i - 1) % Len(PrefixClasses)) + 1])]
        hits == {i \in DOMAIN attempts : attempts[i] # NoMatch}
    IN  IF hits = {} THEN NoMatch
        ELSE attempts[CHOOSE i \in hits : \A j \in hits : i <= j]

\* every parsed name is a member
chain_members_all(pr) ==
    IF pr = NoMatch THEN {} ELSE {pr}
\* the chain resolver: a parsed name is a member of a chain unless it is
\* foreign or partial
chain_members(pr) ==
    IF pr = NoMatch \/ pr.partial THEN {} ELSE {pr}

\* the state of the codec: an entry, its name, what the name parses to, and
\* the chain members taken from it
NoNaming == [at |-> "idle", entry |-> NoMatch, filename |-> <<>>, pr |-> NoMatch, members |-> {}]
NoPrefixes ==
    [short_filenames |-> FALSE, file_prefix |-> <<>>, file_prefix_manifest |-> <<>>,
     file_prefix_archive |-> <<>>, file_prefix_signature |-> <<>>, tz |-> 0]
\* the prefixes of FileNamingPrefixes
TestPrefixes ==
    [short_filenames |-> FALSE, file_prefix |-> <<"g", "l", "o", "b", "a", "l", "-">>, file_prefix_manifest |-> <<"m", "a", "n", "i", "-">>,
     file_prefix_archive |-> <<"a", "r", "c", "h", "-">>, file_prefix_signature |-> <<"s", "i", "g", "n", "-">>, tz |-> 0]
\* local time is UTC, or seven hours west of it
TimeZones == {0, -420}
Configurations ==
    {[p EXCEPT !.short_filenames = s, !.tz = z] :
        p \in {NoPrefixes, TestPrefixes}, s \in BOOLEAN, z \in TimeZones}

\* the entries get is called with
TestTimes ==
    {BigOf(0), BigOf(10), BigOf(20), BigOf(1029826800), BigOf(1036954144), Big(17179, 869184)}
TestRanges ==
    {<<BigOf(10), BigOf(20)>>, <<BigOf(1029654270), BigOf(1029826800)>>,
     <<BigOf(0), Big(17179, 869184)>>}
Volumes == {1, 23, 36}
ValidEntry(e) ==
    /\ e.type \in Types
    /\ IsSignature(e.type) => ~e.manifest /\ e.volume_number = None
    /\ e.manifest => e.volume_number = None
    /\ e.volume_number = None \/ e.volume_number > 0
    /\ IF IsRange(e.type)
       THEN e.time = NoTime /\ e.start_time # NoTime /\ e.end_time # NoTime
       ELSE e.time # NoTime /\ e.start_time = NoTime /\ e.end_time = NoTime
Entries ==
    {e \in {ParseResults(type, m, v, t[1], t[2], t[3], enc, gz, part) :
               type \in Types, m \in BOOLEAN, v \in Volumes \cup {None},
               t \in {<<x, NoTime, NoTime>> : x \in TestTimes}
                     \cup {<<NoTime, r[1], r[2]>> : r \in TestRanges},
               enc \in BOOLEAN, gz \in BOOLEAN, part \in BOOLEAN} :
        ValidEntry(e)}

\* the names of test_more and test_partial, without prefixes
TestNames ==
    {<<"d", "n", "s", ".", "h", "1", "1", "2", "b", "i", ".", "h", "1", "4", "r", "g", "0", ".", "s", "t", ".", "g">>,
     <<"d", "u", "p", "l", "i", "c", "i", "t", "y", "-", "n", "e", "w", "-", "s", "i", "g", "n", "a", "t", "u", "r", "e", "s", ".", "2", "0", "0", "2", "-", "0", "8", "-", "1", "8", "T", "0", "0", ":", "0", "4", ":", "3", "0", "-", "0", "7", ":", "0", "0", ".", "t", "o", ".", "2", "0", "0", "2", "-", "0", "8", "-", "2", "0", "T", "0", "0", ":", "0", "0", ":", "0", "0", "-", "0", "7", ":", "0", "0", ".", "s", "i", "g", "t", "a", "r", ".", "g", "p", "g">>,
     <<"d", "f", "s", ".", "h", "5", "d", "i", "x", "s", ".", "s", "t", ".", "g">>,
     <<"d", "n", "s", ".", "h", "1", "1", "2", "b", "i", ".", "h", "1", "4", "r", "g", "0", ".", "s", "t", ".", "p", ".", "g">>,
     <<"d", "u", "p", "l", "i", "c", "i", "t", "y", "-", "n", "e", "w", "-", "s", "i", "g", "n", "a", "t", "u", "r", "e", "s", ".", "2", "0", "0", "2", "-", "0", "8", "-", "1", "8", "T", "0", "0", ":", "0", "4", ":", "3", "0", "-", "0", "7", ":", "0", "0", ".", "t", "o", ".", "2", "0", "0", "2", "-", "0", "8", "-", "2", "0", "T", "0", "0", ":", "0", "0", ":", "0", "0", "-", "0", "7", ":", "0", "0", ".", "s", "i", "g", "t", "a", "r", ".", "p", "a", "r", "t", ".", "g", "p", "g">>,
     <<"d", "f", "s", ".", "h", "5", "d", "i", "x", "s", ".", "s", "t", ".", "p", ".", "g">>}
\* names that are not backup files: nothing, another file, malformed
\* digits, a missing separator or marker, an unknown or misplaced suffix
ForeignNames ==
    {<<>>,
     <<"R", "E", "A", "D", "M", "E">>,
     <<"d", "f", "s", ".", "h", "5", "_", "i", "x", "s", ".", "s", "t", ".", "g">>,
     <<"d", "f", "s", ".", ".", "s", "t", ".", "g">>,
     <<"d", "u", "p", "l", "i", "c", "i", "t", "y", "-", "f", "u", "l", "l", "-", "s", "i", "g", "n", "a", "t", "u", "r", "e", "s", ".", "2", "0", "0", "2", "-", "1", "3", "-", "2", "0", "T", "0", "0", ":", "0", "0", ":", "0", "0", "Z", ".", "s", "i", "g", "t", "a", "r">>,
     <<"d", "u", "p", "l", "i", "c", "i", "t", "y", "-", "f", "u", "l", "l", "-", "s", "i", "g", "n", "a", "t", "u", "r", "e", "s", ".", "2", "0", "0", "2", "-", "0", "8", "-", "2", "x", "T", "0", "0", ":", "0", "0", ":", "0", "0", "Z", ".", "s", "i", "g", "t", "a", "r">>,
     <<"d", "f", ".", "h", "5", "d", "i", "x", "s", ".", "0", ".", "d", "t">>,
     <<"d", "u", "p", "l", "i", "c", "i", "t", "y", "-", "f", "u", "l", "l", ".", "2", "0", "0", "2", "-", "0", "8", "-", "2", "0", "T", "0", "0", ":", "0", "0", ":", "0", "0", "Z", ".", "v", "o", "l", "0", ".", "d", "i", "f", "f", "t", "a", "r">>,
     <<"d", "f", "s", "h", "5", "d", "i", "x", "s", ".", "s", "t", ".", "g">>,
     <<"d", "n", "s", ".", "h", "1", "1", "2", "b", "i", ".", "s", "t", ".", "g">>,
     <<"d", "u", "p", "l", "i", "c", "i", "t", "y", "-", "n", "e", "w", "-", "s", "i", "g", "n", "a", "t", "u", "r", "e", "s", ".", "2", "0", "0", "2", "-", "0", "8", "-", "1", "8", "T", "0", "0", ":", "0", "4", ":", "3", "0", "-", "0", "7", ":", "0", "0", ".", "2", "0", "0", "2", "-", "0", "8", "-", "2", "0", "T", "0", "0", ":", "0", "0", ":", "0", "0", "-", "0", "7", ":", "0", "0", ".", "s", "i", "g", "t", "a", "r", ".", "g", "p", "g">>,
     <<"d", "f", "s", ".", "h", "5", "d", "i", "x", "s">>,
     <<"d", "f", "s", ".", "h", "5", "d", "i", "x", "s", ".", "s", "t", ".", "x">>,
     <<"d", "f", "s", ".", "h", "5", "d", "i", "x", "s", ".", "s", "t", ".", "g", ".", "x">>,
     <<"d", "f", "s", ".", "h", "5", "d", "i", "x", "s", ".", "s", "t", ".", "g", ".", "p">>,
     <<"d", "n", "s", ".", "h", "1", "1", "2", "b", "i", ".", "h", "1", "4", "r", "g", "0", ".", "s", "t", ".", "z", ".", "p">>,
     <<"d", "u", "p", "l", "i", "c", "i", "t", "y", "-", "f", "u", "l", "l", "-", "s", "i", "g", "n", "a", "t", "u", "r", "e", "s", ".", "2", "0", "0", "2", "-", "0", "8", "-", "2", "0", "T", "0", "0", ":", "0", "0", ":", "0", "0", "Z", ".", "s", "i", "g", "t", "a", "r", ".", "g", "p", "g", ".", "p", "a", "r", "t">>,
     <<"d", "f", "s", ".", "h", "5", "d", "i", "x", "s", ".", "s", "t", ".", "g", "p", "g">>,
     <<"d", "u", "p", "l", "i", "c", "i", "t", "y", "-", "f", "u", "l", "l", "-", "s", "i", "g", "n", "a", "t", "u", "r", "e", "s", ".", "2", "0", "0", "2", "-", "0", "8", "-", "2", "0", "T", "0", "0", ":", "0", "0", ":", "0", "0", "Z", ".", "s", "i", "g", "t", "a", "r", ".", "g">>,
     <<"d", "f", ".", "h", "5", "d", "i", "x", "s", ".", "m", ".", "d", "t", ".", "m">>}
\* a name behind the global and the signature prefix of a configuration
Prefixed(g, name) == g.file_prefix \o g.file_prefix_signature \o name
RawNames ==
    {Prefixed(g, n) : g \in {NoPrefixes, TestPrefixes}, n \in TestNames \cup ForeignNames}

\* get(...) is called for an entry
NamingGet ==
    /\ naming.at = "entry"
    /\ naming' = [naming EXCEPT !.at = "name", !.filename = get(naming.entry, globals)]
    /\ UNCHANGED <<besideCodec, globals, b36>>

\* parse(filename) is called for a name
NamingParse ==
    /\ naming.at = "name"
    /\ naming' = [naming EXCEPT !.at = "parsed", !.pr = parse(naming.filename, globals)]
    /\ UNCHANGED <<besideCodec, globals, b36>>

\* the chain resolver takes the parsed name
NamingResolve ==
    /\ naming.at = "parsed"
    /\ naming' = [naming EXCEPT !.at = "resolved", !.members = chain_members(naming.pr)]
    /\ UNCHANGED <<besideCodec, globals, b36>>

InitCodec ==
    /\ b36 = NoBase36
    /\ globals = NoPrefixes
    /\ naming = NoNaming

\* ---------------------------------------------------------------- GnuPG.run
\* the filehandle names of _fd_modes the callers use here, and _stds
FhNames == {"stdin", "stdout", "stderr", "passphrase", "status"}
_stds == {"stdin", "stdout", "stderr"}
\* GnuPG.passphrase: None, or a string
NoPassphrase == "None"
Passphrases == {NoPassphrase, "", "secret"}

\* the order _fd_modes names are given in when a caller passes several
FhOrder == <<"stdin", "stdout", "stderr", "passphrase", "status">>
ListOf(names) == SelectSeq(FhOrder, LAMBDA k : k \in names)
Range(list) == {list[i] : i \in DOMAIN list}

\* one call of run(): the names in the arguments when it is called,
\* handle_passphrase, process._pipes ("none", "created" by os.pipe() or
\* "direct": the caller's own file object), process.handles, what run()
\* wrote to which handle, the handles run() closed, and the exception
\* raised; list and dict are the caller's create_fhs list and attach_fhs
\* dict (its keys) themselves, calls is the number of this call with them,
\* handled the handle_passphrase of the calls that returned; forked and
\* thread tell whether os.fork() was called and the thread was started
NoRun ==
    [at |-> "idle", passphrase |-> NoPassphrase, create_fhs |-> {}, attach_fhs |-> {},
     handle_passphrase |-> FALSE, pipes |-> [k \in FhNames |-> "none"], handles |-> {},
     written |-> {}, closed |-> {}, raised |-> "none",
     list |-> <<>>, dict |-> {}, calls |-> 0, handled |-> <<>>,
     forked |-> FALSE, thread |-> "none"]

\* GnuPG.run: the standard handles the caller did not name are attached to
\* sys.stdin, sys.stdout, sys.stderr
run_attach_fhs(create_fhs, attach_fhs) ==
    attach_fhs \cup {std \in _stds : std \notin attach_fhs /\ std \notin create_fhs}

\* GnuPG.run: handle_passphrase, whatever the caller passed
run_handle_passphrase_always(passphrase, create_fhs, attach_fhs) ==
    passphrase # NoPassphrase

\* GnuPG.run: handle_passphrase
run_handle_passphrase(passphrase, create_fhs, attach_fhs) ==
    /\ passphrase # NoPassphrase
    /\ "passphrase" \notin attach_fhs
    /\ "passphrase" \notin create_fhs

\* GnuPG._attach_fork_exec, the loop over create_fhs: the pipes os.pipe() has
\* made when the loop stops before its entry number upto
PipesMade(create_fhs, upto) ==
    [k \in FhNames |->
        IF \E i \in 1..(upto - 1) : create_fhs[i] = k THEN "created" ELSE "none"]

\* GnuPG._attach_fork_exec, _as_parent: the KeyError for a name that is not
\* in _fd_modes, the ValueError for a name both created and attached, or
\* the pipes, the child, the thread and the handles of the Process;
\* create_fhs is a list, attach_fhs the keys of a dict
_attach_fork_exec(r, create_fhs, attach_fhs) ==
    LET clashes == {i \in DOMAIN create_fhs : create_fhs[i] \in attach_fhs}
        clash == CHOOSE i \in clashes : \A j \in clashes : i <= j
    IN  IF ~((Range(create_fhs) \cup attach_fhs) \subseteq FhNames)
        THEN [r EXCEPT !.at = "raised", !.raised = "KeyError"]
        ELSE IF clashes # {}
        THEN [r EXCEPT !.at = "raised", !.raised = "ValueError",
                       !.pipes = PipesMade(create_fhs, clash)]
        ELSE [r EXCEPT !.at = "forked",
                       !.pipes = [k \in FhNames |->
                                     IF k \in attach_fhs THEN "direct"
                                     ELSE IF k \in Range(create_fhs) THEN "created"
                                     ELSE "none"],
                       !.forked = TRUE,
                       !.thread = "started",
                       !.handles = Range(create_fhs)]

\* GnuPG.run up to the return of _attach_fork_exec; attach_fhs.setdefault
\* and create_fhs.append work on the caller's dict and list
GnuPG_run_fork ==
    /\ gnupg.at = "called"
    /\ LET attach_fhs == run_attach_fhs(gnupg.create_fhs, gnupg.attach_fhs)
           handle_passphrase ==
               run_handle_passphrase(gnupg.passphrase, gnupg.create_fhs, attach_fhs)
           create_fhs == IF handle_passphrase THEN Append(gnupg.list, "passphrase")
                         ELSE gnupg.list
       IN  gnupg' = _attach_fork_exec([gnupg EXCEPT !.handle_passphrase = handle_passphrase,
                                                    !.list = create_fhs,
                                                    !.dict = attach_fhs],
                                      create_fhs, attach_fhs)
    /\ UNCHANGED besideRun

\* GnuPG.run after _attach_fork_exec: the passphrase is written and its
\* handle closed and deleted if handle_passphrase, then the Process is returned
GnuPG_run_return ==
    /\ gnupg.at = "forked"
    /\ gnupg' = IF gnupg.handle_passphrase
                THEN [gnupg EXCEPT !.at = "returned",
                                   !.written = @ \cup {<<"passphrase", gnupg.passphrase>>},
                                   !.closed = @ \cup {"passphrase"},
                                   !.handles = @ \ {"passphrase"},
                                   !.handled = Append(@, TRUE)]
                ELSE [gnupg EXCEPT !.at = "returned", !.handled = Append(@, FALSE)]
    /\ UNCHANGED besideRun

\* the calls with the same argument objects a caller makes
MaxCalls == 3

\* the caller calls run() again with the list and the dict of its earlier call
GnuPG_run_again ==
    /\ gnupg.at \in {"returned", "raised"}
    /\ gnupg.calls < MaxCalls
    /\ gnupg' = [NoRun EXCEPT !.at = "called",
                              !.passphrase = gnupg.passphrase,
                              !.create_fhs = Range(gnupg.list),
                              !.attach_fhs = gnupg.dict,
                              !.list = gnupg.list,
                              !.dict = gnupg.dict,
                              !.calls = gnupg.calls + 1,
                              !.handled = gnupg.handled]
    /\ UNCHANGED besideRun

\* ---------------------------------------------------------------- AliCloud uploads
\* globals.alicloud_multipart_upload_threads: not defined (None), or a number
MaxThreads == 8
ThreadSettings == {None} \cup 1..MaxThreads

\* the default number of parallel multipart threads
DefaultThreads == 5

\* the local variables of _put when line 69 runs: vars() without an argument
\* is locals()
PutLocals == {"self", "source_path", "remote_filename", "key_name", "multipart_parallel"}

\* AliCloudBackend._put, lines 68-71: the default, unless vars() has the key
\* 'globals.alicloud_multipart_upload_threads' and the setting is at least 5
multipart_parallel(setting) ==
    IF "globals.alicloud_multipart_upload_threads" \in PutLocals
    THEN IF setting >= DefaultThreads THEN setting ELSE DefaultThreads
    ELSE DefaultThreads

NoUpload ==
    [at |-> "none", setting |-> None, f |-> 0, remote_filename |-> <<>>,
     key_name |-> <<>>, num_threads |-> 0, err |-> NoErr]

\* AliCloudBackend._put on a constructed instance: key_name, the number of
\* threads, then oss2.resumable_upload(self.bucket, key_name,
\* source_path.name, num_threads=multipart_parallel)
AliCloud_put_upload ==
    /\ upload.at = "called"
    /\ \E fault \in OssFaultsOf("put") :
          LET r == AliCloud_put(upload.f, upload.remote_filename, fault)
          IN  /\ store' = r.store
              /\ upload' = [upload EXCEPT !.at = "returned",
                                          !.key_name = key_prefix \o upload.remote_filename,
                                          !.num_threads = multipart_parallel(upload.setting),
                                          !.err = r.err]
    /\ UNCHANGED <<sideVars, environ, conf, kind, engVars, sink, ossVars, davVars>>

\* ---------------------------------------------------------------- specification
InitEngine ==
    /\ pc = "new"
    /\ op = NoOp
    /\ attempt = 0
    /\ errs = <<>>
    /\ cleanups = 0
    /\ result = NoResult
    /\ sink = Absent

InitOss ==
    /\ kind = "oss"
    /\ max_attempts \in 1..MaxAttempts
    /\ net = "plain"
    /\ store = [k \in OssKeys |-> IF k \in OssForeign THEN Whole(NFiles) ELSE Absent]
    /\ bucket_on_server \in BOOLEAN
    /\ colls = {}

InitDav ==
    /\ kind = "dav"
    /\ \/ net = "plain" /\ max_attempts \in 1..MaxAttempts
       \/ net = "gateway" /\ max_attempts \in 1..(MaxAttempts - 1)
    /\ store = [q \in DavPaths |-> Absent]
    /\ bucket_on_server = FALSE
    /\ colls \in {{}, DavColls}

InitInstance ==
    /\ store0 = store
    /\ upload = NoUpload
    /\ bucket = "unbound"
    /\ handles = 0
    /\ dav = WebDAV_init(NoUrl)
    /\ hnd = NoHnd
    /\ conf = NoConf
InitBackend ==
    /\ InitInstance
    /\ InitProcess
    /\ gnupg = NoRun
    /\ InitCodec

\* a complete configuration: the three environment variables, the modules,
\* a bucket name; a URL without TLS for WebDAV
OssUrl == Url("oss", "bucket", <<"/", "d">>)
DefaultTls == [ssl_modules |-> TRUE, ssl_no_check_certificate |-> FALSE, cacert |-> "readable"]
NoFile == [exists |-> FALSE, oss |-> [o \in CfgOptions |-> Unset]]
DefaultEnviron(k) ==
    [env |-> [v \in EnvNames |-> Val("env", v)],
     file |-> NoFile,
     oss2 |-> TRUE,
     configparser |-> TRUE,
     url |-> IF k = "oss" THEN OssUrl ELSE BaseUrl,
     tls |-> DefaultTls]

\* no backend is constructed
NoBackend ==
    /\ InitEngine
    /\ kind = "none"
    /\ max_attempts = 1
    /\ net = "plain"
    /\ store = <<>>
    /\ bucket_on_server = FALSE
    /\ colls = {}
    /\ InitInstance
    /\ environ = DefaultEnviron(kind)

Init ==
    /\ InitEngine
    /\ InitOss \/ InitDav
    /\ InitBackend
    /\ environ = DefaultEnviron(kind)

Next ==
    \/ StartOp
    \/ Return
    \/ OssConstruct
    \/ OssAttempt
    \/ OssCleanup
    \/ OssClose
    \/ OssReset
    \/ DavConstruct
    \/ DavBegin
    \/ DavRequest
    \/ DavCleanup
    \/ DavClose
    \/ DavReset

Spec == Init /\ [][Next]_vars

\* ---------------------------------------------------------------- construction
\* Every configuration an instance can be constructed under; a WebDAV
\* instance then lists its directory on a server that serves every request.
Presence == {"unset", "empty", "set"}
Given(how, src, name) ==
    CASE how = "unset" -> Unset
      [] how = "empty" -> Empty
      [] how = "set" -> Val(src, name)
EnvSettings == {[v \in EnvNames |-> Given(how[v], "env", v)] : how \in [EnvNames -> Presence]}
FileSettings ==
    {NoFile} \cup {[exists |-> TRUE, oss |-> [o \in CfgOptions |-> Given(how[o], "file", o)]] :
                      how \in [CfgOptions -> Presence]}
OssEnvirons ==
    {[DefaultEnviron("oss") EXCEPT !.env = e, !.file = f, !.oss2 = m, !.configparser = c,
                                   !.url.hostname = h] :
        e \in EnvSettings, f \in FileSettings, m \in BOOLEAN, c \in BOOLEAN,
        h \in {"", "bucket"}}
TlsSettings ==
    [ssl_modules : BOOLEAN, ssl_no_check_certificate : BOOLEAN,
     cacert : {"none", "readable", "unreadable"}]
DavEnvirons ==
    {[DefaultEnviron("dav") EXCEPT !.url.scheme = s, !.tls = t] :
        s \in {"webdav", "webdavs"}, t \in TlsSettings}

InitCfg ==
    /\ InitEngine
    /\ \/ /\ kind = "oss"
          /\ environ \in OssEnvirons
          /\ max_attempts = MaxAttempts
          /\ store = [k \in OssKeys |-> Absent]
          /\ bucket_on_server \in BOOLEAN
          /\ colls = {}
       \/ /\ kind = "dav"
          /\ environ \in DavEnvirons
          /\ max_attempts \in 1..MaxAttempts
          /\ store = [q \in DavPaths |-> Absent]
          /\ bucket_on_server = FALSE
          /\ colls \in {{}, DavColls}
    /\ net = "quiet"
    /\ InitBackend

NextCfg ==
    \/ OssConstruct
    \/ DavConstruct
    \/ StartOp
    \/ DavBegin
    \/ DavRequest
    \/ Return

SpecCfg == InitCfg /\ [][NextCfg]_vars

\* ---------------------------------------------------------------- moved servers
\* A WebDAV instance whose server has moved and redirects to its new places.
InitMoved ==
    /\ InitEngine
    /\ kind = "dav"
    /\ net = "moved"
    /\ max_attempts \in 1..(MaxAttempts - 1)
    /\ store = [q \in DavPaths |-> Absent]
    /\ bucket_on_server = FALSE
    /\ colls \in {{}, DavColls}
    /\ InitBackend
    /\ environ = DefaultEnviron(kind)

NextMoved ==
    \/ StartOp
    \/ Return
    \/ DavConstruct
    \/ DavBegin
    \/ DavRequest
    \/ DavCleanup
    \/ DavClose
    \/ DavReset

SpecMoved == InitMoved /\ [][NextMoved]_vars

\* ---------------------------------------------------------------- uploads
\* One call of _put on a constructed AliCloud instance, for every setting of
\* globals.alicloud_multipart_upload_threads.
InitPut ==
    /\ kind = "oss"
    /\ max_attempts = 1
    /\ pc = "idle"
    /\ op = NoOp
    /\ attempt = 0
    /\ errs = <<>>
    /\ cleanups = 0
    /\ result = NoResult
    /\ sink = Absent
    /\ net = "plain"
    /\ store = [k \in OssKeys |-> IF k \in OssForeign THEN Whole(NFiles) ELSE Absent]
    /\ store0 = store
    /\ bucket = "bound"
    /\ handles = 0
    /\ bucket_on_server = TRUE
    /\ colls = {}
    /\ dav = WebDAV_init(NoUrl)
    /\ hnd = NoHnd
    /\ environ = DefaultEnviron(kind)
    /\ conf = AliCloud_init(environ)
    /\ InitProcess
    /\ gnupg = NoRun
    /\ InitCodec
    /\ upload \in {[NoUpload EXCEPT !.at = "called", !.setting = t, !.f = f,
                                     !.remote_filename = n] :
                      t \in ThreadSettings, f \in Files, n \in Names}

NextPut ==
    AliCloud_put_upload

SpecPut == InitPut /\ [][NextPut]_vars

\* ---------------------------------------------------------------- GnuPG processes
\* The GnuPG children of one caller, their reaper threads and the caller; no
\* backend is constructed.
InitGpg ==
    /\ InitEngine
    /\ kind = "none"
    /\ max_attempts = 1
    /\ net = "plain"
    /\ store = <<>>
    /\ bucket_on_server = FALSE
    /\ colls = {}
    /\ InitBackend
    /\ environ = DefaultEnviron(kind)

NextGpg ==
    \/ \E p \in Procs : GpgRun(p)
    \/ \E p \in Procs : ChildExit(p)
    \/ \E p \in Procs : ReapElsewhere(p)
    \/ \E p \in Procs : threaded_waitpid_call(p)
    \/ \E p \in Procs : threaded_waitpid_assign(p)
    \/ \E p \in Procs : Process_wait_begin(p)
    \/ \E p \in Procs : Process_wait_join(p)
    \/ \E p \in Procs : Process_wait_test(p)

SpecGpg == InitGpg /\ [][NextGpg]_vars

\* ---------------------------------------------------------------- naming
\* One number through to_base36 and from_base36, or one entry through get,
\* parse and the chain resolver, or one listed name through parse and the
\* chain resolver, under one configuration; no backend is constructed.
InitNaming ==
    /\ NoBackend
    /\ InitProcess
    /\ gnupg = NoRun
    /\ \/ /\ b36 \in {[NoBase36 EXCEPT !.at = "number", !.n = n] : n \in Base36Numbers}
          /\ globals = NoPrefixes
          /\ naming = NoNaming
       \/ /\ b36 = NoBase36
          /\ globals \in Configurations
          /\ naming \in {[NoNaming EXCEPT !.at = "entry", !.entry = e] : e \in Entries}
       \/ /\ b36 = NoBase36
          /\ globals \in Configurations
          /\ naming \in {[NoNaming EXCEPT !.at = "name", !.filename = n] : n \in RawNames}

NextNaming ==
    \/ Base36Encode
    \/ Base36Decode
    \/ NamingGet
    \/ NamingParse
    \/ NamingResolve

SpecNaming == InitNaming /\ [][NextNaming]_vars

\* ---------------------------------------------------------------- calls of GnuPG.run
\* One call of GnuPG.run() for every passphrase attribute and every choice
\* of create_fhs and attach_fhs; no backend is constructed.
Calls ==
    {[NoRun EXCEPT !.at = "called", !.passphrase = p, !.create_fhs = c, !.attach_fhs = a,
                   !.list = ListOf(c), !.dict = a, !.calls = 1] :
        p \in Passphrases, c \in SUBSET FhNames, a \in SUBSET FhNames}

InitRun ==
    /\ NoBackend
    /\ InitProcess
    /\ InitCodec
    /\ gnupg \in Calls

NextRun ==
    \/ GnuPG_run_fork
    \/ GnuPG_run_return

SpecRun == InitRun /\ [][NextRun]_vars

\* ---------------------------------------------------------------- repeated calls of GnuPG.run
\* Up to MaxCalls calls of GnuPG.run() with the same create_fhs list and
\* attach_fhs dict, names in several orders and a name _fd_modes does not
\* have; no backend is constructed.
CreateLists ==
    { <<>>, <<"stdin">>, <<"stdin", "stdout">>, <<"stdin", "passphrase">>,
      <<"passphrase", "stdin">>, <<"stdin", "status">>, <<"status", "stdin", "stdout">>,
      <<"stdin", "bogus">> }
AttachDicts ==
    { {}, {"stdout"}, {"stdin"}, {"passphrase"}, {"status"}, {"stdout", "stderr"}, {"bogus"} }
Reuses ==
    {[NoRun EXCEPT !.at = "called", !.passphrase = p, !.create_fhs = Range(l),
                   !.attach_fhs = a, !.list = l, !.dict = a, !.calls = 1] :
        p \in Passphrases, l \in CreateLists, a \in AttachDicts}

InitReuse ==
    /\ NoBackend
    /\ InitProcess
    /\ InitCodec
    /\ gnupg \in Reuses

NextReuse ==
    \/ GnuPG_run_fork
    \/ GnuPG_run_return
    \/ GnuPG_run_again

SpecReuse == InitReuse /\ [][NextReuse]_vars

\* ---------------------------------------------------------------- properties
\* the key (AliCloud) or path (WebDAV) the operation in progress names
OpKey ==
    (IF kind = "oss" THEN key_prefix ELSE sanitize_path(BaseUrl.path)) \o op.names[1]

\* the last failure of the operation in progress
LastErr == errs[Len(errs)]

\* C1: an operation whose attempts fail with Retriable failures k times and
\* then succeed returns success when max_attempts > k, after exactly k calls of
\* the cleanup hook (on AliCloud: k new bucket handles), and k = max_attempts
\* Retriable failures end the operation with a terminal failure.
C1_RetryBound ==
    /\ pc = "attempt" => cleanups = attempt - 1 /\ Len(errs) = attempt - 1
    /\ (pc = "done" /\ result.status = "ok") =>
          /\ fails = Len(errs)
          /\ fails < max_attempts
          /\ attempt = fails + 1
          /\ cleanups = fails
          /\ kind = "oss" => handles = fails
    /\ fails = max_attempts =>
          /\ pc = "done"
          /\ result.status = "fail"
          /\ result.at = "attempt"
          /\ cleanups = max_attempts - 1
          /\ kind = "oss" => handles = max_attempts - 1

\* k = MaxAttempts - 1 Retriable failures, then success with max_attempts = k + 1
C1_Witness ==
    /\ pc = "done"
    /\ result.status = "ok"
    /\ max_attempts = MaxAttempts
    /\ fails = max_attempts - 1
    /\ cleanups = fails

\* C2: a Fatal failure of an attempt (authentication, malformed request, not
\* found on delete) is raised to the caller by that very attempt: no cleanup
\* hook call and no further attempt follow it.
C2_FatalSurfaced ==
    [][(Len(errs') = Len(errs) + 1 /\ Fatal(errs'[Len(errs')])) =>
          /\ pc' = "done"
          /\ result'.status = "fail"
          /\ result'.at = "attempt"
          /\ result'.err = errs'[Len(errs')]
          /\ attempt' = attempt
          /\ cleanups' = cleanups]_vars

\* a first attempt met 403 with attempts to spare, and the operation is over
C2_Witness ==
    /\ pc = "done"
    /\ result.status = "fail"
    /\ Fatal(result.err)
    /\ result.err.status \in {400, 401, 403, 404}
    /\ attempt = 1
    /\ attempt < max_attempts
    /\ cleanups = 0

\* the steps left to an operation: attempts and cleanups of the engine, and
\* within a WebDAV attempt the calls of request() its transport method makes
MaxDirs == Len(makedir_dirs(sanitize_path(BaseUrl.path)))
RequestBudget == MaxRedirects + 2 - hnd.rq.redirected
PhaseRank ==
    CASE hnd.phase = "none" -> 2 * MaxDirs + 3
      [] hnd.phase = "main" -> 2 * MaxDirs + 2
      [] hnd.phase = "mk_propfind" -> 2 * (Len(hnd.dirs) - hnd.i) + 2
      [] hnd.phase = "mk_mkcol" -> 2 * (Len(hnd.dirs) - hnd.i) + 1
AttemptMeasure == PhaseRank * (MaxRedirects + 3) + RequestBudget
AttemptMeasureBound == (2 * MaxDirs + 4) * (MaxRedirects + 3)
Measure ==
    CASE pc = "attempt" ->
             (2 * (max_attempts - attempt) + 1) * AttemptMeasureBound
             + (IF kind = "dav" THEN AttemptMeasure ELSE 0)
      [] pc = "cleanup" -> 2 * (max_attempts - attempt) * AttemptMeasureBound
      [] OTHER -> 0

C3_Bounded ==
    /\ attempt <= max_attempts
    /\ Len(errs) <= max_attempts
    /\ pc \in {"attempt", "cleanup"} =>
          /\ attempt >= 1
          /\ RequestBudget >= 1
          /\ PhaseRank >= 1
          /\ AttemptMeasure < AttemptMeasureBound
          /\ Measure > 0
    /\ (pc = "done" /\ result.status = "fail" /\ result.at = "attempt") =>
          /\ result.err = LastErr
          /\ result.op = op.name
          /\ Len(errs) = attempt
    /\ (pc = "done" /\ result.status = "fail" /\ result.at = "attempt"
            /\ Retriable(result.err)) => attempt = max_attempts

\* C3: every operation terminates: each step of an operation in progress
\* lowers a measure that stays positive, no operation makes more than
\* max_attempts attempts, and one that exhausts them raises a failure carrying
\* the error of its last attempt and the operation's name.
C3_Terminates ==
    /\ []C3_Bounded
    /\ [][(pc \in {"attempt", "cleanup"}) => (Measure' < Measure)]_vars

\* max_attempts > 1 attempts were made, all failed Retriable, the last one's
\* error is raised
C3_Witness ==
    /\ pc = "done"
    /\ result.status = "fail"
    /\ result.at = "attempt"
    /\ max_attempts = MaxAttempts
    /\ attempt = max_attempts
    /\ fails = max_attempts
    /\ result.err = LastErr
    /\ result.op = op.name

\* the size query reports for a key: -1 for a missing object
QuerySize(k) == IF store[k] = Absent THEN -1 ELSE store[k].n

\* C4: query never raises for a missing object: it returns size -1 exactly
\* when the object is absent and a size >= 0 otherwise, and query_batch returns
\* a mapping whose keys are the names it was given, each with query's answer.
C4_QueryMissing ==
    /\ (kind = "oss" /\ pc = "done" /\ op.name = "query") =>
          /\ result.status = "ok" =>
                /\ result.val.size = QuerySize(OpKey)
                /\ (result.val.size = -1) <=> (store[OpKey] = Absent)
                /\ result.val.size >= -1
          /\ result.status = "fail" =>
                result.err.cls \in {"RequestError", "ServerError", "AccessDenied",
                                    "AttributeError"}
    /\ (kind = "oss" /\ pc = "done" /\ op.name = "query_batch") =>
          /\ result.status = "ok" =>
                /\ DOMAIN result.val = {op.names[i] : i \in 1..Len(op.names)}
                /\ \A n \in DOMAIN result.val :
                      result.val[n].size = QuerySize(key_prefix \o n)
          /\ result.status = "fail" =>
                result.err.cls \in {"RequestError", "ServerError", "AccessDenied",
                                    "AttributeError"}

\* query_batch answered for a missing object and an existing one
C4_Witness ==
    /\ kind = "oss"
    /\ pc = "done"
    /\ op.name = "query_batch"
    /\ result.status = "ok"
    /\ \E n, m \in DOMAIN result.val : result.val[n].size = -1 /\ result.val[m].size >= 0

\* C5: delete of a name that does not exist completes without error and
\* leaves the remote store unchanged, on AliCloud and on WebDAV: a not-found
\* answer to a delete is no failure.
C5_DeleteMissing ==
    (pc = "done" /\ op.name = "delete" /\ store0[OpKey] = Absent) =>
        /\ store = store0
        /\ result.status = "fail" => result.err.status # 404

\* AliCloud's half of C5: a delete of a missing key the server served
C5_AliCloudDeleteMissing ==
    /\ kind = "oss"
    /\ pc = "done"
    /\ op.name = "delete"
    /\ store0[OpKey] = Absent
    /\ result.status = "ok"
    /\ store = store0

C7_GetWhole ==
    (pc = "done" /\ op.name = "get" /\ result.status = "ok") =>
        /\ store0[OpKey] # Absent
        /\ sink = store0[OpKey]
        /\ IsWhole(sink)
        /\ store = store0

\* a get that succeeded on a later attempt, after a broken download
C7_Witness ==
    /\ pc = "done"
    /\ op.name = "get"
    /\ result.status = "ok"
    /\ sink = Whole(NFiles)
    /\ attempt > 1

\* the names list returned, and an object's name below a prefix
Listed == {result.val[i] : i \in 1..Len(result.val)}
Strip(k, prefix) == SubSeq(k, Len(prefix) + 1, Len(k))

\* C8 as stated: list returns exactly the names of the objects stored under
\* the prefix or directory, the prefix taken off, and never an empty name for
\* the collection itself.
C8_NoEmptyName ==
    (pc = "done" /\ op.name = "list" /\ result.status = "ok") =>
        LET prefix == IF kind = "oss" THEN key_prefix ELSE dav.directory
            under == {k \in DOMAIN store : store[k] # Absent /\ StartsWith(k, prefix)}
        IN  /\ Listed = {Strip(k, prefix) : k \in under}
            /\ <<>> \notin Listed

\* C8, amended: list returns exactly the names of the objects stored under
\* the backend's prefix or directory, each once, with the prefix taken off its
\* start; nothing outside the prefix is listed.  On WebDAV the collection
\* itself is not listed as an empty name; on AliCloud an object whose key is
\* the prefix itself is listed, as the empty name.
C8_ListExact ==
    (pc = "done" /\ op.name = "list" /\ result.status = "ok") =>
        LET prefix == IF kind = "oss" THEN key_prefix ELSE dav.directory
            under == {k \in DOMAIN store : store[k] # Absent /\ StartsWith(k, prefix)}
        IN  /\ Listed = {Strip(k, prefix) : k \in under}
            /\ Len(result.val) = Cardinality(under)
            /\ kind = "dav" => <<>> \notin Listed
            /\ store = store0

\* AliCloud listed the folder placeholder as the empty name, next to a file
\* and a nested key, and left out the key outside the prefix
C8_Witness ==
    /\ kind = "oss"
    /\ pc = "done"
    /\ op.name = "list"
    /\ result.status = "ok"
    /\ Listed = {<<>>, <<"a">>, <<"d", "/", "a">>}

\* the steps of the backends, told by where they start: a call of request(),
\* an AliCloud transport call, a reset_session by the caller or by the engine
\* (construction included), a close
RequestStep == kind = "dav" /\ pc = "attempt" /\ hnd.phase # "none"
OssCallStep == kind = "oss" /\ pc = "attempt"
CallerStep == pc \in {"idle", "failed"} /\ pc' \in {"idle", "failed"}
ResetStep == pc \in {"new", "cleanup"} \/ CallerStep
OssResetStep ==
    kind = "oss" /\ (pc \in {"new", "cleanup"} \/ (CallerStep /\ bucket' = "bound"))
DavResetStep ==
    kind = "dav" /\ (pc = "cleanup" \/ (CallerStep /\ dav'.conn.st = "fresh"))

C10_ResetIdempotent ==
    /\ [](pc \in {"idle", "failed"} =>
             IF kind = "oss" THEN ENABLED OssReset ELSE ENABLED DavReset)
    /\ [][/\ OssResetStep =>
                /\ bucket' = "bound"
                /\ store' = store
                /\ bucket_on_server => bucket_on_server'
                /\ (pc \in {"new", "cleanup"} /\ pc' \in {"idle", "attempt"})
                      => bucket_on_server'
                /\ (bucket = "bound" /\ bucket_on_server) =>
                      UNCHANGED <<bucket, bucket_on_server>>
          /\ DavResetStep =>
                /\ dav'.conn.st = "fresh"
                /\ dav'.conn.host = dav.parsed_url.hostname
                /\ dav'.orphans = 0
                /\ dav' = [dav EXCEPT !.conn = dav'.conn]
                /\ store' = store
                /\ WebDAV_connect(dav', TRUE).dav = dav'
                /\ (dav.conn.st = "fresh" /\ dav.orphans = 0) => dav' = dav]_vars

\* WebDAV after a retry's reset of a connection that was open
C10_Witness ==
    /\ kind = "dav"
    /\ pc = "attempt"
    /\ attempt > 1
    /\ hnd.phase = "none"
    /\ dav.conn.st = "fresh"
    /\ dav.orphans = 0

\* the server serves the request
Served == [k |-> "serve", url |-> NoUrl]
SuccessStatus == {200, 201, 204, 207}

\* a WebDAV operation on one name, started in the state after this step, all of
\* whose requests the server serves, succeeds when the server's answer does
DavServedNext(method, name, data) ==
    LET rq == Req(method, dav'.directory \o name, data)
        r == WebDAV_request(store', colls', dav', rq, Served, Served, "path", FALSE)
        sv == Serve(store', colls', rq, dav'.parsed_url.hostname, "path", FALSE)
    IN  /\ r.k = "response"
        /\ r.resp = sv.resp
        /\ r.store = sv.store
        /\ sv.resp.status \in SuccessStatus =>
              NoErr = CASE method = "PUT" -> WebDAV_put(r.resp)
                        [] method = "DELETE" -> WebDAV_delete(r.resp)
                        [] method = "GET" -> WebDAV_get(r.resp).err

\* C11: an operation that failed Fatal leaves the instance waiting for a
\* reset: until reset_session is called no data operation starts and nothing
\* is sent to the store; an operation issued right after the reset succeeds
\* whenever the server serves it.
C11_SessionExclusive ==
    [][/\ (pc = "done" /\ result.status = "fail" /\ Fatal(result.err)) => pc' = "failed"
       /\ (pc' = "attempt" /\ pc # "attempt") => pc \in {"idle", "cleanup"}
       /\ pc = "failed" =>
             /\ pc' \in {"failed", "idle"}
             /\ store' = store
             /\ sink' = sink
       /\ (pc = "failed" /\ pc' = "idle" /\ kind = "oss") =>
             \A o \in OpsOf("oss", net) :
                 LET r == OssTransport(o, [i \in 1..MaxBatch |-> "ok"], 0)'
                 IN  \/ r.err = NoErr
                     \/ o.name = "get" /\ store'[key_prefix \o o.names[1]] = Absent
       /\ (pc = "failed" /\ pc' = "idle" /\ kind = "dav") =>
             \A n \in Names :
                 /\ \A f \in Files :
                       DavServedNext("PUT", n, f)
                 /\ DavServedNext("DELETE", n, 0)
                 /\ DavServedNext("GET", n, 0)]_vars

\* an operation has failed Fatal and the instance waits for its reset
C11_Witness ==
    pc = "failed"

\* the keys of the first i names of the batch in progress
BatchKeys(i) == {key_prefix \o op.names[j] : j \in 1..i}

\* C12: delete_batch deletes the names one at a time in list order: a call
\* that returns has deleted them all; when the delete of the i-th name fails
\* the call raises, the names before position i are deleted, and no name
\* beyond position i (nor any other key) is touched.
C12_DeleteBatchInOrder ==
    [][(OssCallStep /\ op.name = "delete_batch") =>
          IF Len(errs') = Len(errs)
          THEN /\ \A k \in BatchKeys(Len(op.names)) : store'[k] = Absent
               /\ \A k \in DOMAIN store \ BatchKeys(Len(op.names)) : store'[k] = store[k]
          ELSE \E i \in 1..Len(op.names) :
                  /\ \A k \in BatchKeys(i - 1) : store'[k] = Absent
                  /\ store'[key_prefix \o op.names[i]] \in
                         {Absent, store[key_prefix \o op.names[i]]}
                  /\ \A k \in DOMAIN store \ BatchKeys(i) : store'[k] = store[k]]_vars

\* a batch of two names failed at the second: the first is gone, the second
\* is still there
C12_Witness ==
    /\ pc = "done"
    /\ op.name = "delete_batch"
    /\ result.status = "fail"
    /\ Len(op.names) = 2
    /\ store0[key_prefix \o op.names[1]] # Absent
    /\ store[key_prefix \o op.names[1]] = Absent
    /\ store[key_prefix \o op.names[2]] # Absent

\* the keys the operation in progress writes or deletes, and what it leaves
\* under a key it has written or deleted
OpTargets ==
    CASE op.name \in {"put", "delete"} -> {OpKey}
      [] op.name = "delete_batch" -> BatchKeys(Len(op.names))
      [] OTHER -> {}
OpEffect == IF op.name = "put" THEN Whole(op.f) ELSE Absent

\* the operation failed with its attempts exhausted
Exhausted ==
    /\ pc = "done"
    /\ result.status = "fail"
    /\ Retriable(result.err)
    /\ attempt = max_attempts

C14_RetriedIdempotent ==
    (pc = "done" /\ attempt > 1) =>
        /\ (op.name = "put" /\ result.status = "ok") => store[OpKey] = Whole(op.f)
        /\ (op.name = "delete" /\ store0[OpKey] # Absent /\ store[OpKey] = Absent
               /\ result.status = "fail") => result.err.status # 404

\* the put half on WebDAV: a retried put has succeeded over the object an
\* earlier attempt of it had stored
C14_PutRetried ==
    /\ kind = "dav"
    /\ pc = "done"
    /\ op.name = "put"
    /\ attempt > 1
    /\ result.status = "ok"
    /\ store0[OpKey] = Absent
    /\ store[OpKey] = Whole(op.f)
    /\ errs[1].cls = "socket.error"


\* ---- configuration (checked under SpecCfg)
AllFromEnv == \A v \in EnvNames : environ.env[v] # Unset
Constructed == pc \notin {"new", "dead"}

\* C15: AliCloud configuration takes the three values from one source, the
\* environment when all three variables are set and ~/.alicloud.cfg otherwise;
\* construction fails when neither source is there, and it never completes
\* with one of the three values empty.
C15_ConfigSource ==
    (kind = "oss" /\ pc # "new") =>
        /\ conf.err = NoErr =>
              /\ \A o \in CfgOptions : conf[o] \notin {Empty, Unset}
              /\ IF AllFromEnv
                 THEN \A o \in CfgOptions : conf[o] = Val("env", EnvNameOf(o))
                 ELSE /\ environ.file.exists
                      /\ \A o \in CfgOptions : conf[o] = Val("file", o)
        /\ (~AllFromEnv /\ ~environ.file.exists) => (conf.err # NoErr /\ pc = "dead")
        /\ conf.err # NoErr => pc = "dead"
        /\ Constructed => \A o \in CfgOptions : conf[o].src \in {"env", "file"}

\* an instance configured from the file while some, not all, of the
\* environment variables are set
C15_Witness ==
    /\ kind = "oss"
    /\ pc = "idle"
    /\ ~AllFromEnv
    /\ \E v \in EnvNames : environ.env[v] = Val("env", v)
    /\ conf.endpoint = Val("file", "endpoint")

\* the configuration errors: no complete set of credentials in the source
\* that is read, no bucket name, a CA certificate file that cannot be read
Credentialed ==
    IF AllFromEnv THEN \A v \in EnvNames : environ.env[v] # Empty
    ELSE environ.file.exists /\ \A o \in CfgOptions : environ.file.oss[o] \notin {Unset, Empty}
BucketNamed == environ.url.hostname # ""
CertUnreadable ==
    /\ environ.url.scheme \in {"webdavs", "https"}
    /\ ~environ.tls.ssl_no_check_certificate
    /\ environ.tls.cacert = "unreadable"

StatusCodes == {200, 201, 204, 207, 301, 302, 400, 401, 404, 405, 409, 500}
ExpectedStatus ==
    CASE hnd.phase = "mk_mkcol" -> {201}
      [] hnd.phase = "mk_propfind" -> StatusCodes
      [] op.name = "put" -> {200, 201, 204}
      [] op.name = "delete" -> {200, 204}
      [] op.name = "get" -> {200}
      [] op.name = "list" -> {200, 207, 404}

StatusJudged(r) ==
    LET s == r.resp.status
    IN  IF r.k # "response" THEN ~(pc' = "done" /\ result'.status = "ok")
        ELSE IF s \in ExpectedStatus THEN errs' # Append(errs, BackendException(s))
        ELSE /\ errs' = Append(errs, BackendException(s))
             /\ pc' = IF s >= 500 /\ attempt < max_attempts THEN "cleanup" ELSE "done"
             /\ pc' = "done" => (result'.status = "fail" /\ result'.err = BackendException(s))

C18_TenRedirects ==
    kind = "dav" => hnd.rq.redirected <= 10

\* the twelfth PROPFIND of a chain is about to be sent: 11 redirects were
\* followed
C18_TwelfthRequest ==
    /\ kind = "dav"
    /\ pc = "attempt"
    /\ hnd.rq.method = "PROPFIND"
    /\ hnd.rq.redirected = 11

\* the document holds an href in full-URL form that names another host
ForeignHref(d, doc) ==
    \E i \in DOMAIN doc : doc[i].host # "" /\ doc[i].host # d.parsed_url.hostname

\* C19: a listing that holds an href in full-URL form naming another host
\* makes list fail: _list raises the BackendException of taste_href and
\* returns no names at all, and that failure is Fatal, ends the operation on
\* the attempt that met it and is not retried.
C19_ForeignHrefFatal ==
    /\ (RequestStep /\ op.name = "list" /\ hnd.phase = "main") =>
          \A c \in DavChoices(net, "PROPFIND") :
              LET r == WebDAV_request(store, colls, dav, hnd.rq, c.ans, c.ans2,
                                      c.style, c.extra)
                  nodepth == [r.dav EXCEPT !.headers.Depth = FALSE]
              IN  (/\ r.k = "response"
                   /\ r.resp.status \in {200, 207}
                   /\ ~r.resp.cut
                   /\ ForeignHref(nodepth, r.resp.doc)) =>
                      WebDAV_list(nodepth, r.resp) = [err |-> BackendException(0), val |-> <<>>]
    /\ Fatal(BackendException(0))
    /\ \A i \in DOMAIN errs :
          errs[i] = BackendException(0) =>
              /\ i = Len(errs)
              /\ pc = "done"
              /\ result.status = "fail"
              /\ result.err = BackendException(0)
              /\ result.val = 0
              /\ cleanups = Len(errs) - 1

\* a list of a directory that holds a file has failed on a foreign href, on
\* its first attempt with attempts to spare
C19_Witness ==
    /\ kind = "dav"
    /\ op.name = "list"
    /\ pc = "done"
    /\ result.err = BackendException(0)
    /\ \E q \in DavPaths : store[q] # Absent
    /\ attempt = 1
    /\ max_attempts > 1

\* ---- GnuPG processes (checked under SpecGpg)
\* C20: Process.wait() raises IOError if and only if the child exited with a
\* non-zero status: a wait() that returned normally means the child has
\* exited with status 0, a wait() that raised means it has exited otherwise.
C20_WaitReportsExit ==
    \A p \in Procs :
        /\ caller[p] = "returned" => (child[p].st \in {"zombie", "reaped"} /\ child[p].status = 0)
        /\ caller[p] = "raised" => (child[p].st \in {"zombie", "reaped"} /\ child[p].status # 0)

\* wait() has returned normally for a child that exited with a non-zero
\* status
C20_NonZeroAsSuccess ==
    \E p \in Procs :
        /\ caller[p] = "returned"
        /\ child[p].st = "reaped"
        /\ child[p].status # 0
\* ---------------------------------------------------------------- naming (checked under SpecNaming)
\* C22: the base-36 encoding is lossless: from_base36(to_base36(n)) = n for
\* every number drawn (the numbers of test_base36, 0..MaxSmallNumber, the
\* powers of 36 and the numbers around 2^31, 2^32 and 2^34), and the string
\* between is a non-empty string of base-36 digits without a leading zero
\* unless it is "0".
C22_Base36Lossless ==
    /\ b36.at \in {"string", "back"} =>
          /\ IsBase36(b36.s)
          /\ b36.s = <<"0">> \/ Head(b36.s) # "0"
    /\ b36.at = "back" => b36.back = b36.n
C22_Witness ==
    /\ b36.at = "back"
    /\ b36.n = Big(34972, 382455)
    /\ b36.back = b36.n
    /\ Len(b36.s) = 7

\* an entry has been through get and its name through parse
RoundTripped == naming.at \in {"parsed", "resolved"} /\ naming.entry # NoMatch

\* C21: for every valid entry encoded without the partial flag and every
\* configuration (long or short names, no prefixes or the four prefixes,
\* either time zone), parse(get(entry)) has the same type, the same time or
\* (start_time, end_time), the same volume number, manifest, compressed and
\* encrypted flags, and partial = false.
C21_RoundTrip ==
    RoundTripped /\ ~naming.entry.partial =>
        /\ naming.pr # NoMatch
        /\ naming.pr.type = naming.entry.type
        /\ naming.pr.time = naming.entry.time
        /\ naming.pr.start_time = naming.entry.start_time
        /\ naming.pr.end_time = naming.entry.end_time
        /\ naming.pr.volume_number = naming.entry.volume_number
        /\ naming.pr.manifest = naming.entry.manifest
        /\ naming.pr.compressed = naming.entry.compressed
        /\ naming.pr.encrypted = naming.entry.encrypted
        /\ naming.pr.partial = FALSE
\* test_basic under FileNamingPrefixes: get("inc", volume_number = 23) with
\* prevtime 10 and curtime 20
C21_Witness ==
    /\ RoundTripped
    /\ globals.file_prefix = <<"g", "l", "o", "b", "a", "l", "-">>
    /\ ~globals.short_filenames
    /\ naming.entry.type = "inc"
    /\ naming.entry.volume_number = 23
    /\ naming.pr.start_time = BigOf(10)
    /\ naming.pr.end_time = BigOf(20)
    /\ naming.pr.volume_number = 23
    /\ ~naming.pr.partial

\* a listed name has been through parse
NameListed == naming.at \in {"parsed", "resolved"} /\ naming.entry = NoMatch
\* the name is one the encoder writes for the parsed entry, in one of the
\* two forms and one of the time zones
Encodable(filename, pr, g) ==
    \E short \in BOOLEAN, tz \in TimeZones :
        get(pr, [g EXCEPT !.short_filenames = short, !.tz = tz]) = filename
\* the foreign names, bare and behind the prefixes of a configuration
ForeignListed ==
    \E g \in {NoPrefixes, TestPrefixes}, n \in ForeignNames :
        naming.filename = Prefixed(g, n)

\* C23: parse is total: for every listed name it returns None or a valid
\* entry; it returns None for the empty string, for a name without the
\* global prefix, and for a name with the right prefix but malformed
\* digits, a missing separator or marker, or an unknown or misplaced
\* suffix token; and it returns an entry only for a name the encoder writes
\* for that entry.
C23_DecodeTotal ==
    NameListed =>
        /\ naming.pr = NoMatch \/ ValidEntry(naming.pr)
        /\ naming.pr # NoMatch => Encodable(naming.filename, naming.pr, globals)
        /\ ForeignListed => naming.pr = NoMatch
        /\ ~StartsWith(naming.filename, globals.file_prefix) => naming.pr = NoMatch
\* the right prefixes, but a character that is no digit in the timestamp
C23_Witness ==
    /\ NameListed
    /\ globals.file_prefix # <<>>
    /\ globals.short_filenames
    /\ naming.filename
         = PrefixOf(globals, "signature")
           \o <<"d", "f", "s", ".", "h", "5", "_", "i", "x", "s", ".", "s", "t", ".", "g">>
    /\ naming.pr = NoMatch

\* the entry with the partial flag cleared
Completed(pr) == [pr EXCEPT !.partial = FALSE]

\* C24: partial is orthogonal: a name that parses with partial = true is
\* the name of the same entry without the flag plus the partial token, and
\* that name parses to the same type, times, volume and flags with partial
\* = false; a name written by get without the partial flag parses with
\* partial = false; and the chain resolver never takes an entry with
\* partial = true as a member.
C24_PartialOrthogonal ==
    /\ naming.at \in {"parsed", "resolved"} /\ naming.pr # NoMatch /\ naming.pr.partial =>
          \E short \in BOOLEAN, tz \in TimeZones :
              LET g == [globals EXCEPT !.short_filenames = short, !.tz = tz]
              IN  /\ get(naming.pr, g) = naming.filename
                  /\ get(Completed(naming.pr), g) # naming.filename
                  /\ parse(get(Completed(naming.pr), g), globals) = Completed(naming.pr)
    /\ RoundTripped => naming.pr.partial = naming.entry.partial
    /\ naming.at = "resolved" =>
          /\ \A m \in naming.members : ~m.partial
          /\ naming.pr # NoMatch /\ ~naming.pr.partial => naming.members = {naming.pr}
\* test_partial: dns.h112bi.h14rg0.st.p.g behind the configured prefixes
C24_Witness ==
    /\ naming.at = "resolved"
    /\ naming.entry = NoMatch
    /\ naming.filename
         = PrefixOf(globals, "signature")
           \o <<"d", "n", "s", ".", "h", "1", "1", "2", "b", "i", ".", "h", "1", "4", "r", "g", "0",
                ".", "s", "t", ".", "p", ".", "g">>
    /\ naming.pr.partial
    /\ naming.pr.type = "new-sig"
    /\ naming.pr.end_time = BigOf(1029826800)
    /\ naming.members = {}

\* the tokens of the name after the prefixes, and its last token
NameTokens == Split(naming.filename, ".")
LastToken == NameTokens[Len(NameTokens)]
\* an entry has been through get
Encoded == naming.at \in {"name", "parsed", "resolved"} /\ naming.entry # NoMatch

Parsed == naming.at \in {"parsed", "resolved"}
\* the name is what get writes for the parsed entry in the given form
InForm(short) ==
    \E tz \in TimeZones :
        get(naming.pr, [globals EXCEPT !.short_filenames = short, !.tz = tz]) = naming.filename

\* C26 as stated: parse accepts a name only in the form the configuration
\* names: a short-form name under long names, and a long-form name under
\* short names, give None.
C26_ModeOnly ==
    Parsed /\ naming.pr # NoMatch => InForm(globals.short_filenames)

\* C26: with short_filenames set, parse accepts the short form only (a
\* long-form name gives None); with short_filenames off it accepts both
\* forms: a name that parses under short names parses to the same entry
\* under long names, and the long-form names parse too.
C26_FormsAccepted ==
    Parsed =>
        /\ globals.short_filenames /\ naming.pr # NoMatch => InForm(TRUE)
        /\ naming.pr # NoMatch => InForm(TRUE) \/ InForm(FALSE)
        /\ ~globals.short_filenames =>
              LET alt == parse(naming.filename, [globals EXCEPT !.short_filenames = TRUE])
              IN  /\ alt # NoMatch => naming.pr = alt
                  /\ alt = NoMatch /\ naming.pr # NoMatch => InForm(FALSE)
\* test_more under FileNamingLong and FileNamingPrefixes: the short-form
\* name parses although short_filenames is off
C26_Witness ==
    /\ Parsed
    /\ naming.entry = NoMatch
    /\ ~globals.short_filenames
    /\ naming.filename
         = PrefixOf(globals, "signature")
           \o <<"d", "n", "s", ".", "h", "1", "1", "2", "b", "i", ".", "h", "1", "4", "r", "g", "0",
                ".", "s", "t", ".", "g">>
    /\ naming.pr.type = "new-sig"
    /\ InForm(TRUE)
    /\ ~InForm(FALSE)

\* the names of test_more behind the configured prefixes
ShortNewSig == globals.file_prefix \o globals.file_prefix_signature \o
    <<"d", "n", "s", ".", "h", "1", "1", "2", "b", "i", ".", "h", "1", "4", "r", "g", "0", ".", "s", "t", ".", "g">>
ShortFullSig == globals.file_prefix \o globals.file_prefix_signature \o
    <<"d", "f", "s", ".", "h", "5", "d", "i", "x", "s", ".", "s", "t", ".", "g">>
LongNewSig == globals.file_prefix \o globals.file_prefix_signature \o
    <<"d", "u", "p", "l", "i", "c", "i", "t", "y", "-", "n", "e", "w", "-", "s", "i", "g", "n", "a", "t", "u", "r", "e", "s", ".", "2", "0", "0", "2", "-", "0", "8", "-", "1", "8", "T", "0", "0", ":", "0", "4", ":", "3", "0", "-", "0", "7", ":", "0", "0", ".", "t", "o", ".", "2", "0", "0", "2", "-", "0", "8", "-", "2", "0", "T", "0", "0", ":", "0", "0", ":", "0", "0", "-", "0", "7", ":", "0", "0", ".", "s", "i", "g", "t", "a", "r", ".", "g", "p", "g">>

\* C27: behind the configured global and signature prefixes, the short-form
\* name dns.h112bi.h14rg0.st.g parses to type new-sig with end_time
\* 1029826800 and dfs.h5dixs.st.g to type full-sig with time 1036954144
\* under every configuration (long names, short names, the custom
\* prefixes); the long-form new-signatures name parses to new-sig with
\* end_time 1029826800 when short_filenames is off.
C27_TestMore ==
    Parsed /\ naming.entry = NoMatch =>
        /\ naming.filename = ShortNewSig =>
              /\ naming.pr.type = "new-sig"
              /\ naming.pr.end_time = BigOf(1029826800)
              /\ naming.pr.encrypted /\ ~naming.pr.partial
        /\ naming.filename = ShortFullSig =>
              /\ naming.pr.type = "full-sig"
              /\ naming.pr.time = BigOf(1036954144)
        /\ naming.filename = LongNewSig /\ ~globals.short_filenames =>
              /\ naming.pr.type = "new-sig"
              /\ naming.pr.end_time = BigOf(1029826800)
\* FileNamingPrefixes with short names: global-sign-dfs.h5dixs.st.g
C27_Witness ==
    /\ Parsed
    /\ naming.entry = NoMatch
    /\ globals.file_prefix_signature # <<>>
    /\ naming.filename = ShortFullSig
    /\ naming.pr.type = "full-sig"
    /\ naming.pr.time = BigOf(1036954144)

\* ---------------------------------------------------------------- GnuPG.run (checked under SpecRun)
\* run() has returned a Process
RunReturned == gnupg.at = "returned"
\* the caller named the passphrase handle in create_fhs or attach_fhs
PassphraseSupplied ==
    "passphrase" \in gnupg.create_fhs \/ "passphrase" \in gnupg.attach_fhs
RunWrote == \E w \in gnupg.written : w[1] = "passphrase"

\* C28 as stated: whenever the caller supplies a passphrase handle, run()
\* writes nothing to it and leaves it open in the handles of the Process.
C28_SuppliedHandleInHandles ==
    RunReturned /\ PassphraseSupplied =>
        /\ ~RunWrote
        /\ "passphrase" \in gnupg.handles
        /\ "passphrase" \notin gnupg.closed

\* C28: run() handles the passphrase itself exactly when the passphrase
\* attribute is not None and "passphrase" is in neither create_fhs nor
\* attach_fhs: it has then written the passphrase, and nothing else, to the
\* passphrase pipe it created, closed it, and removed it from the handles
\* of the Process it returns. Otherwise it writes and closes nothing: a
\* passphrase handle asked for in create_fhs is open in handles; one
\* attached through attach_fhs stays the caller's (direct) and is not in
\* handles.
C28_PassphraseHandling ==
    /\ gnupg.at \in {"forked", "returned"} =>
          gnupg.handle_passphrase <=> (gnupg.passphrase # NoPassphrase /\ ~PassphraseSupplied)
    /\ gnupg.at = "forked" => gnupg.written = {} /\ gnupg.closed = {}
    /\ RunReturned /\ gnupg.handle_passphrase =>
          /\ gnupg.written = {<<"passphrase", gnupg.passphrase>>}
          /\ gnupg.closed = {"passphrase"}
          /\ gnupg.pipes["passphrase"] = "created"
          /\ "passphrase" \notin gnupg.handles
    /\ RunReturned /\ ~gnupg.handle_passphrase =>
          /\ gnupg.written = {}
          /\ gnupg.closed = {}
          /\ "passphrase" \in gnupg.handles <=> "passphrase" \in gnupg.create_fhs
          /\ "passphrase" \in gnupg.attach_fhs => gnupg.pipes["passphrase"] = "direct"
C28_Witness ==
    /\ RunReturned
    /\ gnupg.passphrase = "secret"
    /\ gnupg.create_fhs = {"stdin", "stdout"}
    /\ gnupg.handle_passphrase
    /\ gnupg.written = {<<"passphrase", "secret">>}
    /\ gnupg.handles = {"stdin", "stdout"}

\* ---------------------------------------------------------------- authentication (checked under Spec)
\* the answers that ask for authentication, and the header for each
Challenges == {"e401b", "e401d"}
AuthorizationFor(k) == IF k = "e401b" THEN "basic" ELSE "digest"

MakedirStep == kind = "dav" /\ hnd.phase \in {"mk_propfind", "mk_mkcol"}
ListReturned == kind = "dav" /\ pc = "done" /\ op.name = "list" /\ result.status = "ok"

MakedirWalk ==
    MakedirStep =>
        /\ op.name = "list" /\ pc = "attempt"
        /\ hnd.i \in 1..Len(hnd.dirs)
        /\ ParentOf(hnd.dirs[1]) = <<"/">>
        /\ \A k \in 2..Len(hnd.dirs) : ParentOf(hnd.dirs[k]) = hnd.dirs[k - 1]
        /\ hnd.dirs[Len(hnd.dirs)] = dav.directory
        /\ hnd.rq.method = (IF hnd.phase = "mk_mkcol" THEN "MKCOL" ELSE "PROPFIND")
        /\ hnd.rq.redirected = 0 => hnd.rq.path = hnd.dirs[hnd.i]
        /\ hnd.phase = "mk_mkcol" /\ net # "gateway" => ~CollExists(colls, hnd.dirs[hnd.i])
\* one step of _list and makedir
MakedirMoves ==
    LET d == hnd.dirs[hnd.i]
        on == hnd'.phase = "mk_propfind" /\ hnd'.i = hnd.i + 1
        returned == pc' = "done" /\ result'.status = "ok"
    IN  /\ (kind = "dav" /\ hnd.phase = "main" /\ MakedirStep') =>
              /\ op.name = "list"
              /\ ~CollExists(colls, dav.directory)
              /\ hnd'.phase = "mk_propfind" /\ hnd'.i = 1
              /\ colls' = colls
        /\ (MakedirStep /\ hnd.phase = "mk_propfind" /\ hnd' # hnd) =>
              /\ colls' = colls
              /\ hnd'.phase = "mk_mkcol" => hnd'.i = hnd.i /\ ~CollExists(colls, hnd.rq.path)
              /\ hnd'.phase = "mk_propfind" => hnd'.i \in {hnd.i, hnd.i + 1}
              /\ returned => hnd.i = Len(hnd.dirs) /\ result'.val = <<>>
        /\ (MakedirStep /\ hnd.phase = "mk_mkcol" /\ hnd' # hnd) =>
              /\ colls' \subseteq colls \cup {d}
              /\ (on \/ returned) => d \in colls'
              /\ d \notin colls' => Len(errs') = Len(errs) + 1
              /\ hnd'.phase # "none" => on
              /\ returned => hnd.i = Len(hnd.dirs) /\ result'.val = <<>>

Outcomes ==
    {[c |-> c, r |-> WebDAV_request(store, colls, dav, hnd.rq, c.ans, c.ans2, c.style, c.extra)] :
        c \in DavChoices(net, hnd.rq.method)}

\* what the transport method of the pending request raises for a response
MethodError(resp) ==
    CASE hnd.rq.method = "PUT" -> WebDAV_put(resp)
      [] hnd.rq.method = "DELETE" -> WebDAV_delete(resp)
      [] hnd.rq.method = "GET" -> WebDAV_get(resp).err
      [] hnd.rq.method = "MKCOL" ->
           IF resp.status # 201 THEN BackendException(resp.status) ELSE NoErr
      [] OTHER -> NoErr

\* request() calls itself only for a PROPFIND that was answered by a redirect
\* with a Location, and then with the new parsed_url and directory; a
\* redirect answer to another method is returned, leaves parsed_url,
\* directory and headers alone and makes the transport method raise a Fatal
\* error; a GET, PUT or DELETE goes to the current directory on a connection
\* to the current host
RedirectInv ==
    /\ pc # "new" /\ kind = "dav" => dav.directory = sanitize_path(dav.parsed_url.path)
    /\ RequestStep =>
         \A o \in Outcomes :
            /\ o.r.k = "recurse" =>
                  /\ hnd.rq.method = "PROPFIND"
                  /\ o.c.ans.k = "redirect"
                  /\ o.r.dav.parsed_url = o.c.ans.url
                  /\ o.r.dav.directory = sanitize_path(o.c.ans.url.path)
                  /\ o.r.rq.path = o.r.dav.directory
            /\ (hnd.rq.method # "PROPFIND" /\ o.c.ans.k \in {"redirect", "r_noloc"}) =>
                  /\ o.r.k = "response"
                  /\ o.r.resp.status \in {301, 302}
                  /\ o.r.dav.parsed_url = dav.parsed_url
                  /\ o.r.dav.directory = dav.directory
                  /\ o.r.dav.headers = dav.headers
                  /\ o.r.dav.digest_challenge = dav.digest_challenge
                  /\ Fatal(MethodError(o.r.resp))
            /\ (hnd.rq.method \in {"GET", "PUT", "DELETE"} /\ o.r.sent >= 1) =>
                  /\ hnd.rq.path = sanitize_path(dav.parsed_url.path) \o op.names[1]
                  /\ o.r.dav.conn.host = dav.parsed_url.hostname

\* parsed_url and directory of a constructed instance change only in a
\* PROPFIND call of request(), which then calls itself for the new directory
RedirectMoves ==
    (pc # "new" /\ (dav'.parsed_url # dav.parsed_url \/ dav'.directory # dav.directory)) =>
        /\ RequestStep
        /\ hnd.rq.method = "PROPFIND"
        /\ pc' = "attempt"
        /\ hnd'.rq.method = "PROPFIND"
        /\ hnd'.rq.path = dav'.directory
        /\ hnd'.rq.redirected = hnd.rq.redirected + 1
        /\ dav'.directory = sanitize_path(dav'.parsed_url.path)

\* C31: WebDAV follows 301/302 redirects only for PROPFIND requests; a
\* followed redirect replaces parsed_url and directory for good, so that every
\* later GET, PUT and DELETE goes to the redirected host and directory; a
\* redirect answer to another method is not followed, changes no backend
\* state and makes the operation fail.
C31_Redirects == []RedirectInv /\ [][RedirectMoves]_vars

\* a PUT about to be sent to the directory of another host that an earlier
\* PROPFIND was redirected to
C31_Witness ==
    /\ RequestStep
    /\ hnd.rq.method = "PUT"
    /\ dav.parsed_url.hostname = "h2"
    /\ hnd.rq.path = <<"/", "q", "/", "a">>
    /\ environ.url.hostname = "h1"

\* ---------------------------------------------------------------- reset_connection (checked under Spec)
\* C32: after AliCloud reset_connection has returned without error, at
\* construction and in _retry_cleanup, the backend holds a new bucket handle
\* and the bucket exists on the server; create_bucket is called if and only
\* if get_bucket_acl reported NoSuchBucket, and any other error of the check
\* propagates and no bucket is created.
C32_ResetConnection ==
    kind = "oss" =>
        /\ pc \in {"new", "cleanup", "idle", "failed"} =>
              \A fault1 \in OssFaultsOf("acl"), fault2 \in OssFaultsOf("put") :
                 LET r == AliCloud_reset_connection(fault1, fault2)
                 IN  /\ r.err = NoErr =>
                           /\ r.bucket = "bound"
                           /\ r.handles = handles + 1
                           /\ r.bucket_on_server
                     /\ r.creates <=> (fault1 = "ok" /\ ~bucket_on_server)
                     /\ fault1 # "ok" =>
                           /\ r.err = OssErr(fault1)
                           /\ r.bucket_on_server = bucket_on_server
        /\ pc = "idle" /\ op = NoOp /\ bucket = "bound" => bucket_on_server
        /\ pc = "attempt" /\ attempt > 1 => bucket = "bound" /\ bucket_on_server

\* the second attempt of an operation, after a _retry_cleanup that returned
\* without error
C32_Witness ==
    /\ kind = "oss"
    /\ pc = "attempt"
    /\ attempt = 2
    /\ cleanups = 1
    /\ bucket = "bound"
    /\ bucket_on_server

\* ---------------------------------------------------------------- upload threads (checked under SpecPut)
\* C33: AliCloud _put uploads key_prefix + remote_filename with as many
\* parallel multipart threads as globals.alicloud_multipart_upload_threads
\* says when that setting is defined and at least 5, and with the default 5
\* otherwise.
C33_ConfiguredThreads ==
    upload.at = "returned" =>
        /\ upload.key_name = <<"d", "/">> \o upload.remote_filename
        /\ upload.num_threads =
              IF upload.setting # None /\ upload.setting >= 5 THEN upload.setting ELSE 5

\* a _put that returned without error under a setting of 8 threads, and
\* gave oss2.resumable_upload the default number
C33_DefaultDespiteSetting ==
    /\ upload.at = "returned"
    /\ upload.err = NoErr
    /\ upload.setting = 8
    /\ upload.num_threads = 5
    /\ store[upload.key_name] = Whole(upload.f)

\* ---------------------------------------------------------------- the Depth header (checked under Spec)
\* C34: the WebDAV Depth header is sent only with PROPFIND requests: after
\* any sequence of operations, also ones in which a PROPFIND request raised
\* an exception, self.headers has no Depth entry when a GET, PUT, DELETE or
\* MKCOL request is sent.
C34_DepthOnlyWithPropfind ==
    (RequestStep /\ hnd.rq.method \in {"GET", "PUT", "DELETE", "MKCOL"}) =>
        ~dav.headers.Depth

\* a PUT about to be sent with the Depth header that an earlier, failed
\* PROPFIND left in self.headers
C34_DepthWithPut ==
    /\ RequestStep
    /\ hnd.rq.method = "PUT"
    /\ op.name = "put"
    /\ attempt = 1
    /\ dav.headers.Depth

\* ---------------------------------------------------------------- connections (checked under SpecMoved)
\* C35: every WebDAV request is sent over a connection opened to the host,
\* the port and the scheme (plain or TLS) of the current parsed_url: the
\* first request, the requests after _retry_cleanup, and the request that
\* follows a redirect which changed the host, the port or the scheme.
C35_ConnectionOfParsedUrl ==
    RequestStep =>
        \A o \in Outcomes :
            o.r.sent >= 1 =>
                /\ o.r.dav.conn.st = "open"
                /\ o.r.dav.conn.host = dav.parsed_url.hostname
                /\ o.r.dav.conn.port = dav.parsed_url.port
                /\ o.r.dav.conn.tls = (dav.parsed_url.scheme \in {"webdavs", "https"})

\* a list that returned its listing after a redirect to https on the same
\* host: the PROPFIND that was served went over the connection without TLS
\* that was opened for the webdav URL
C35_PlainAfterRedirectToTls ==
    /\ kind = "dav"
    /\ pc = "done"
    /\ result.status = "ok"
    /\ op.name = "list"
    /\ environ.url.scheme = "webdav"
    /\ dav.parsed_url.scheme = "https"
    /\ dav.parsed_url.hostname = "h1"
    /\ dav.conn.st = "open"
    /\ dav.conn.host = "h1"
    /\ ~dav.conn.tls

\* ---------------------------------------------------------------- repeated calls (checked under SpecReuse)
\* C36: GnuPG.run() leaves the caller's create_fhs list and attach_fhs dict
\* as they were when it was called, so that calls which reuse the same
\* argument objects behave like calls with fresh copies: with the passphrase
\* attribute set, the passphrase is delivered by run() on the second and
\* later calls just as on the first.
C36_ArgumentsUntouched ==
    /\ gnupg.at \in {"forked", "returned", "raised"} =>
          /\ Range(gnupg.list) = gnupg.create_fhs
          /\ gnupg.dict = gnupg.attach_fhs
    /\ \A i \in DOMAIN gnupg.handled : gnupg.handled[i] = gnupg.handled[1]

\* the second call with the list of the first has returned: run() delivered
\* the passphrase in the first call only, and the Process of the second has
\* a passphrase handle nothing was written to
C36_SecondCallNotHandled ==
    /\ RunReturned
    /\ gnupg.calls = 2
    /\ gnupg.passphrase = "secret"
    /\ gnupg.handled = <<TRUE, FALSE>>
    /\ gnupg.list = <<"stdin", "passphrase">>
    /\ gnupg.written = {}
    /\ "passphrase" \in gnupg.handles

\* C37: when GnuPG.run() rejects its handle arguments, with KeyError for an
\* unrecognized filehandle name or ValueError for a name given in both
\* create_fhs and attach_fhs, no pipe has been created and no child forked:
\* no file descriptor is left open and there is no process and no thread.
C37_RejectedBeforePipes ==
    gnupg.at = "raised" =>
        /\ gnupg.raised \in {"KeyError", "ValueError"}
        /\ \A k \in FhNames : gnupg.pipes[k] # "created"
        /\ ~gnupg.forked
        /\ gnupg.thread = "none"
        /\ gnupg.handles = {}

\* run() raised ValueError for the second name of create_fhs after
\* os.pipe() had made the pipe of the first
C37_PipeLeftOpen ==
    /\ gnupg.at = "raised"
    /\ gnupg.raised = "ValueError"
    /\ gnupg.calls = 1
    /\ gnupg.list = <<"stdin", "passphrase">>
    /\ gnupg.dict = {"passphrase", "stdout", "stderr"}
    /\ gnupg.pipes["stdin"] = "created"
    /\ ~gnupg.forked

\* ---------------------------------------------------------------- the reaper thread (checked under SpecGpg)
\* C38: for each successful GnuPG.run() one thread running threaded_waitpid
\* is started in the parent before run() returns, and Process.wait() tests
\* the exit status only after that thread has stored it in returned: in
\* every interleaving of the thread with the calls of wait(), wait() never
\* reads an unset status, does not go on before the child has terminated,
\* and repeated calls of wait() have the same outcome.
C38_WaitAfterReaper ==
    \A p \in Procs :
        /\ caller[p] # "none" =>
              /\ process[p].pid = p
              /\ process[p].thread \in {"started", "finished"}
              /\ reaper[p].at # "none"
        /\ process[p].thread = "finished" <=> reaper[p].at = "done"
        /\ caller[p] \in {"test", "returned", "raised"} =>
              /\ process[p].returned # None
              /\ reaper[p].at = "done"
              /\ child[p].st = "reaped"
        /\ \A i \in DOMAIN process[p].waits :
              /\ process[p].waits[i] = process[p].waits[1]
              /\ process[p].waits[i] = IF process[p].returned # 0 THEN "raised" ELSE "returned"

\* two calls of wait() on the Process of a child that exited with status 1
\* have both raised, while the other child is still running
C38_Witness ==
    /\ process[1].waits = <<"raised", "raised">>
    /\ process[1].returned = 256
    /\ child[1].st = "reaped"
    /\ child[2].st = "running"
    /\ caller[2] = "run"

====
